---- MODULE Spec2Model ----
(***************************************************************************)
(* Model of the linesheet generator (src/excel-generator.js): the template *)
(* based generateExcel, generateSeparateExcelFiles and the helpers they    *)
(* use.  A JavaScript string is a sequence of one-character strings, so    *)
(* that replace(/\s+/g,'_') and parseInt are computed and not assumed.     *)
(* An absent (undefined) string field is the empty string and an absent    *)
(* number is 0: the code reads every product field through `x || default`, *)
(* which treats undefined, '' and 0 alike.                                 *)
(***************************************************************************)
EXTENDS Integers, Sequences, FiniteSets, TLC

(* ------------------------------ bounds --------------------------------- *)

\* catalogs of one request
MaxCatalogs == 2
\* products of one request, over all its catalogs
MaxProducts == 2

(* --------------------------- JavaScript strings ------------------------ *)

IsSpace(ch) == ch = " "

IsDigit(ch) == ch \in {"0", "1", "2", "3", "4", "5", "6", "7", "8", "9"}

DigitVal(ch) ==
  CASE ch = "0" -> 0 [] ch = "1" -> 1 [] ch = "2" -> 2 [] ch = "3" -> 3
    [] ch = "4" -> 4 [] ch = "5" -> 5 [] ch = "6" -> 6 [] ch = "7" -> 7
    [] ch = "8" -> 8 [] ch = "9" -> 9

\* str.replace(/\s+/g, '_'): every maximal run of whitespace becomes one "_"
RECURSIVE ReplaceSpaces(_)
ReplaceSpaces(s) ==
  IF s = <<>> THEN <<>>
  ELSE IF IsSpace(Head(s))
       THEN IF Len(s) > 1 /\ IsSpace(s[2])
            THEN ReplaceSpaces(Tail(s))
            ELSE <<"_">> \o ReplaceSpaces(Tail(s))
       ELSE <<Head(s)>> \o ReplaceSpaces(Tail(s))

RECURSIVE SkipSpaces(_)
SkipSpaces(s) ==
  IF s # <<>> /\ IsSpace(Head(s)) THEN SkipSpaces(Tail(s)) ELSE s

RECURSIVE DigitPrefix(_, _)
DigitPrefix(s, acc) ==
  IF s # <<>> /\ IsDigit(Head(s))
  THEN DigitPrefix(Tail(s), acc * 10 + DigitVal(Head(s)))
  ELSE acc

\* parseInt(str, 10): leading whitespace skipped, an optional sign, then the
\* longest prefix of digits; NaN when there is no digit.
ParseInt(s) ==
  LET t == SkipSpaces(s)
      neg == t # <<>> /\ Head(t) = "-"
      u == IF t # <<>> /\ Head(t) \in {"-", "+"} THEN Tail(t) ELSE t
  IN IF u = <<>> \/ ~IsDigit(Head(u))
     THEN [nan |-> TRUE, n |-> 0]
     ELSE [nan |-> FALSE, n |-> IF neg THEN 0 - DigitPrefix(u, 0) ELSE DigitPrefix(u, 0)]

\* str.includes(sub)
Includes(s, sub) ==
  \E i \in 0..(Len(s) - Len(sub)) : SubSeq(s, i + 1, i + Len(sub)) = sub

(* ------------------------------ size breaks ---------------------------- *)

\* SIZE_BREAKS: the number of size labels under each key (the labels
\* themselves are never written to a sheet: only their count is used)
SIZE_BREAKS_KEYS == {1, 2, 3, 4}

SIZE_BREAKS_LEN(k) ==
  CASE k = 1 -> 20 [] k = 2 -> 10 [] k = 3 -> 6 [] k = 4 -> 1

\* const sizeBreakNum = parseInt(product.sizeBreak, 10) || 1;
sizeBreakNum(sizeBreak) ==
  LET p == ParseInt(sizeBreak)
  IN IF p.nan \/ p.n = 0 THEN 1 ELSE p.n

\* a lookup that loses the last label of every size break
sizesOffByOne(sizeBreak) ==
  LET k == sizeBreakNum(sizeBreak)
  IN IF k \in SIZE_BREAKS_KEYS THEN SIZE_BREAKS_LEN(k) - 1 ELSE 0

\* const sizes = SIZE_BREAKS[sizeBreakNum] || [];  (its length)
sizes(sizeBreak) ==
  LET k == sizeBreakNum(sizeBreak)
  IN IF k \in SIZE_BREAKS_KEYS THEN SIZE_BREAKS_LEN(k) ELSE 0

(* ------------------------------ cells ---------------------------------- *)

\* A cell value (ExcelJS cell.value): null, a string, a number, or a formula
\* { formula, result } that may still be linked to a shared formula.
NullV == [t |-> "null", s |-> <<>>, n |-> 0, shared |-> FALSE, hasResult |-> FALSE]

StrV(str) == [t |-> "string", s |-> str, n |-> 0, shared |-> FALSE, hasResult |-> FALSE]

NumV(num) == [t |-> "number", s |-> <<>>, n |-> num, shared |-> FALSE, hasResult |-> FALSE]

\* cell.value = { formula: text }: an own formula, no shared link, no result
FormulaV(text) == [t |-> "formula", s |-> text, n |-> 0, shared |-> FALSE, hasResult |-> FALSE]

\* a formula cell as a template file can hold it
TemplateFormulaV(text, isShared, hasRes, res) ==
  [t |-> "formula", s |-> text, n |-> res, shared |-> isShared, hasResult |-> hasRes]

\* A cell: its value and the parts of its style the generator touches
Cell(v, numFmt, align) == [v |-> v, numFmt |-> numFmt, align |-> align]

BlankCell == Cell(NullV, "General", "none")

CURRENCY == "$#,##0.00"

\* The cells of a sheet: a function on the coordinates <<row, col>> whose cell
\* is not BlankCell.
NoCells == [x \in {} |-> BlankCell]

GetCell(cells, r, c) ==
  IF <<r, c>> \in DOMAIN cells THEN cells[<<r, c>>] ELSE BlankCell

PutCell(cells, r, c, cell) ==
  IF cell = BlankCell
  THEN [x \in (DOMAIN cells) \ {<<r, c>>} |-> cells[x]]
  ELSE [x \in (DOMAIN cells) \cup {<<r, c>>} |->
          IF x = <<r, c>> THEN cell ELSE cells[x]]

\* cell.value = v (the style is kept)
SetValue(cells, r, c, v) ==
  PutCell(cells, r, c, [GetCell(cells, r, c) EXCEPT !.v = v])

\* cell.numFmt = fmt
SetNumFmt(cells, r, c, fmt) ==
  PutCell(cells, r, c, [GetCell(cells, r, c) EXCEPT !.numFmt = fmt])

\* cell.style.alignment = { horizontal: h }
SetAlign(cells, r, c, h) ==
  PutCell(cells, r, c, [GetCell(cells, r, c) EXCEPT !.align = h])

\* row heights: a function on the rows whose height is set
NoHeights == [x \in {} |-> 0]

SetHeight(heights, r, h) ==
  [x \in (DOMAIN heights) \cup {r} |-> IF x = r THEN h ELSE heights[x]]

\* images anchored on a sheet: the 1-based row each one is anchored to
Sheet(id, name, cells, heights, images) ==
  [id |-> id, name |-> name, cells |-> cells, heights |-> heights, images |-> images]

\* drop the cells that hold nothing
Normalize(cells) ==
  [x \in {y \in DOMAIN cells : cells[y] # BlankCell} |-> cells[x]]

(* --------------------------- request data ------------------------------ *)

PLACEHOLDER == <<"/", "a", "p", "i", "/", "p", "l", "a", "c", "e", "h", "o", "l", "d", "e", "r", "/">>

PlaceholderImage == PLACEHOLDER \o <<"4", "0">>

UrlImage == <<"h", "/", "a", ".", "J", "P", "G">>

NoString == <<>>

\* a product.image that is not a string (a number or an object of the
\* request's JSON): truthy, and without an includes method
ObjectImage == <<"[object Object]">>

\* a product with every attribute present
FullProduct(sizeBreak, image, wholesalePrice, suggRetailPrice) ==
  [name |-> <<"N">>, styleNumber |-> <<"7">>, color |-> <<"c">>, colorCode |-> <<"k">>,
   season |-> <<"s">>, evergreen |-> <<"Y">>, countryOfOrigin |-> <<"o">>,
   fabrication |-> <<"f">>, materialComposition |-> <<"m">>, category |-> <<"C">>,
   subcategory |-> <<"S">>, sizeBreak |-> sizeBreak, image |-> image,
   wholesalePrice |-> wholesalePrice, suggRetailPrice |-> suggRetailPrice]

\* a product with no field at all
EmptyProduct ==
  [name |-> NoString, styleNumber |-> NoString, color |-> NoString, colorCode |-> NoString,
   season |-> NoString, evergreen |-> NoString, countryOfOrigin |-> NoString,
   fabrication |-> NoString, materialComposition |-> NoString, category |-> NoString,
   subcategory |-> NoString, sizeBreak |-> NoString, image |-> NoString,
   wholesalePrice |-> 0, suggRetailPrice |-> 0]

ProductPool ==
  { FullProduct(<<"3">>, UrlImage, 50, 125),
    FullProduct(<<"1">>, PlaceholderImage, 40, 100),
    FullProduct(<<"2">>, NoString, 40, 0),
    FullProduct(<<"4">>, NoString, 30, 75),
    FullProduct(<<"5">>, NoString, 30, 75),
    FullProduct(<<"x">>, NoString, 30, 75),
    FullProduct(<<"3">>, ObjectImage, 50, 125),
    EmptyProduct }

RECURSIVE SeqsUpTo(_, _)
SeqsUpTo(S, n) ==
  IF n = 0 THEN {<<>>}
  ELSE LET shorter == SeqsUpTo(S, n - 1)
       IN shorter \cup {Append(q, x) : q \in {r \in shorter : Len(r) = n - 1}, x \in S}

\* "FW25", and a name with a run of whitespace
CatalogNames == { <<"F", "W", "2", "5">>, <<"S", " ", " ", "6">> }

CompanyNames == { <<"A", "c", "m", "e", " ", "C", "o">> }

\* catalog.products is a list, or is absent (hasProducts = FALSE)
Catalog(id, name, hasProducts, products) ==
  [id |-> id, name |-> name, hasProducts |-> hasProducts, products |-> products]

ProductLists == SeqsUpTo(ProductPool, MaxProducts)

CatalogPool ==
  { Catalog(0, nm, TRUE, ps) : nm \in CatalogNames, ps \in ProductLists }
    \cup { Catalog(0, nm, FALSE, <<>>) : nm \in CatalogNames }

RECURSIVE TotalProducts(_)
TotalProducts(cs) ==
  IF cs = <<>> THEN 0 ELSE Len(Head(cs).products) + TotalProducts(Tail(cs))

\* the catalogs of a request: the i-th one has id i
CatalogLists ==
  { [i \in 1..Len(cs) |-> [cs[i] EXCEPT !.id = i]] :
      cs \in { q \in SeqsUpTo(CatalogPool, MaxCatalogs) :
                 Len(q) >= 1 /\ TotalProducts(q) <= MaxProducts } }

OutputTypes == {"combined", "separate"}

(* ------------------------------ template ------------------------------- *)

WINTER_25 == <<"W", "i", "n", "t", "e", "r", " ", "2", "5">>

ORDER_SUMMARY == <<"O", "r", "d", "e", "r", " ", "S", "u", "m", "m", "a", "r", "y">>

OTHER_SHEET == <<"S", "h", "e", "e", "t", "1">>

\* The template store is outside the program: templates/B2B_Linesheet_BASE.xlsx
\* is read by path only.  What the file holds is an input; these are the
\* cells of its template sheet in the model: header labels, formula cells
\* (shared and own, with and without a cached result) and two sample product
\* rows left in the product region.
TemplateSheetCells ==
  LET c0 == NoCells
      c1 == PutCell(c0, 2, 1, Cell(StrV(<<"R">>), "General", "none"))
      c2 == PutCell(c1, 2, 2, Cell(StrV(<<"r">>), "General", "none"))
      c3 == PutCell(c2, 3, 1, Cell(StrV(<<"L">>), "General", "none"))
      c4 == PutCell(c3, 4, 6, Cell(TemplateFormulaV(<<"A", "1">>, TRUE, TRUE, 5), "General", "none"))
      c5 == PutCell(c4, 4, 7, Cell(TemplateFormulaV(<<"B", "1">>, FALSE, TRUE, 0), "General", "none"))
      c6 == PutCell(c5, 6, 2, Cell(StrV(<<"H">>), "General", "center"))
      c7 == PutCell(c6, 7, 2, Cell(StrV(<<"z">>), "General", "none"))
      c8 == PutCell(c7, 7, 14, Cell(NumV(9), CURRENCY, "none"))
      c9 == PutCell(c8, 7, 17, Cell(NumV(1), "General", "center"))
      c10 == PutCell(c9, 7, 34, Cell(NumV(9), "General", "none"))
      c11 == PutCell(c10, 8, 3, Cell(StrV(<<"z">>), "General", "none"))
      c12 == PutCell(c11, 8, 16, Cell(TemplateFormulaV(<<"Q", "8">>, TRUE, TRUE, 3), "General", "none"))
      c13 == PutCell(c12, 5, 4, Cell(StrV(<<"Y">>), "General", "none"))
  IN c13

TemplateSheetHeights == SetHeight(SetHeight(NoHeights, 6, 30), 7, 20)

SummarySheetCells ==
  LET c0 == NoCells
      c1 == PutCell(c0, 1, 1, Cell(StrV(<<"R">>), "General", "none"))
      c2 == PutCell(c1, 4, 5, Cell(TemplateFormulaV(<<"E", "3">>, FALSE, FALSE, 0), "General", "none"))
      c3 == PutCell(c2, 5, 5, Cell(TemplateFormulaV(<<"E", "4">>, TRUE, TRUE, 2), "General", "none"))
  IN c3

\* a template sheet with content below its sample rows as well: a value in
\* the first column of rows 32 and 33
ManyRowsSheetCells ==
  LET c1 == PutCell(TemplateSheetCells, 32, 1, Cell(StrV(<<"z">>), "General", "none"))
      c2 == PutCell(c1, 33, 1, Cell(StrV(<<"z">>), "General", "none"))
  IN c2

\* the files the template path can hold: a well-formed template, one without
\* the template sheet, one without the summary sheet
TemplateFiles == {"good", "noTemplateSheet", "noSummarySheet"}

TemplateFileSheets(file) ==
  CASE file = "good" ->
         << Sheet(1, WINTER_25, TemplateSheetCells, TemplateSheetHeights, {}),
            Sheet(2, ORDER_SUMMARY, SummarySheetCells, NoHeights, {}) >>
    [] file = "noTemplateSheet" ->
         << Sheet(1, OTHER_SHEET, TemplateSheetCells, TemplateSheetHeights, {}),
            Sheet(2, ORDER_SUMMARY, SummarySheetCells, NoHeights, {}) >>
    [] file = "noSummarySheet" ->
         << Sheet(1, WINTER_25, TemplateSheetCells, TemplateSheetHeights, {}) >>
    [] file = "manyRows" ->
         << Sheet(1, WINTER_25, ManyRowsSheetCells, TemplateSheetHeights, {}),
            Sheet(2, ORDER_SUMMARY, SummarySheetCells, NoHeights, {}) >>

(* ------------------------------ workbook ------------------------------- *)

\* new ExcelJS.Workbook()
NewWorkbook == [sheets |-> <<>>, creator |-> ""]

LINESHEET_GENERATOR == "Linesheet Generator"

\* workbook.getWorksheet(name): the index of the first sheet of that name, 0
\* when there is none
getWorksheet(wb, name) ==
  IF \E i \in 1..Len(wb.sheets) : wb.sheets[i].name = name
  THEN CHOOSE i \in 1..Len(wb.sheets) :
         /\ wb.sheets[i].name = name
         /\ \A j \in 1..(i - 1) : wb.sheets[j].name # name
  ELSE 0

RECURSIVE MaxId(_)
MaxId(ss) ==
  IF ss = <<>> THEN 0
  ELSE LET m == MaxId(Tail(ss)) IN IF Head(ss).id > m THEN Head(ss).id ELSE m

\* workbook.addWorksheet(name): a new empty sheet with the next id
addWorksheet(wb, name) ==
  [wb EXCEPT !.sheets = Append(@, Sheet(MaxId(@) + 1, name, NoCells, NoHeights, {}))]

\* workbook.removeWorksheet(id)
removeWorksheet(wb, id) ==
  [wb EXCEPT !.sheets = SelectSeq(@, LAMBDA sh : sh.id # id)]

SheetIndexById(wb, id) ==
  IF \E i \in 1..Len(wb.sheets) : wb.sheets[i].id = id
  THEN CHOOSE i \in 1..Len(wb.sheets) : wb.sheets[i].id = id
  ELSE 0

(* ------------------------------ formulas ------------------------------- *)

\* a conversion that leaves every cell as it was read
convertCellKeepsLink(v) == v

\* convertSharedFormulasToNormal, one cell: a formula cell with a formula
\* text gets { formula: text } and keeps its result only when that is truthy
convertCell(v) ==
  IF v.t = "formula" /\ v.s # <<>>
  THEN IF v.hasResult /\ v.n # 0
       THEN [FormulaV(v.s) EXCEPT !.hasResult = TRUE, !.n = v.n]
       ELSE FormulaV(v.s)
  ELSE v

\* wb.eachSheet / eachRow / eachCell over the cells that hold something
convertSharedFormulasToNormal(wb) ==
  [wb EXCEPT !.sheets =
     [i \in 1..Len(wb.sheets) |->
        LET cells == wb.sheets[i].cells
        IN [wb.sheets[i] EXCEPT !.cells =
              Normalize([x \in DOMAIN cells |-> [cells[x] EXCEPT !.v = convertCell(cells[x].v)]])]]]

\* generateSeparateExcelFiles, "Fix shared formulas immediately after
\* loading": the same rewrite without restoring the result
fixCellSeparate(v) ==
  IF v.t = "formula" /\ v.s # <<>> THEN FormulaV(v.s) ELSE v

\* wb.eachSheet / eachRow / eachCell over the cells that hold something
fixSharedFormulasSeparate(wb) ==
  [wb EXCEPT !.sheets =
     [i \in 1..Len(wb.sheets) |->
        LET cells == wb.sheets[i].cells
        IN [wb.sheets[i] EXCEPT !.cells =
              Normalize([x \in DOMAIN cells |-> [cells[x] EXCEPT !.v = fixCellSeparate(cells[x].v)]])]]]

\* the recovery pass, one cell: a formula cell becomes its result, or null
stripCell(v) ==
  IF v.t = "formula"
  THEN IF v.hasResult THEN NumV(v.n) ELSE NullV
  ELSE v

\* wb.eachSheet / eachRow / eachCell over the cells that hold something
removeFormulas(wb) ==
  [wb EXCEPT !.sheets =
     [i \in 1..Len(wb.sheets) |->
        LET cells == wb.sheets[i].cells
        IN [wb.sheets[i] EXCEPT !.cells =
              Normalize([x \in DOMAIN cells |-> [cells[x] EXCEPT !.v = stripCell(cells[x].v)]])]]]

HasFormula(wb) ==
  \E i \in 1..Len(wb.sheets) :
    \E x \in DOMAIN wb.sheets[i].cells : wb.sheets[i].cells[x].v.t = "formula"

(* --------------------------- sheet population -------------------------- *)

productStartRow == 7

productStartRowSeparate == 8

rowsToScan == 25

clearColumns == 30

productRowHeight == 100

firstSizeColumn == 17

wholesalePriceColumn == 34

retailPriceColumn == 35

wholesalePriceColumnSeparate == 14

retailPriceColumnSeparate == 15

\* copy of the template sheet's rows into the new catalog sheet: a formula
\* cell is copied as { formula: cell.formula }, any other value as it is,
\* the style is deep-copied
cloneCell(cell) ==
  IF cell.v.t = "formula" THEN [cell EXCEPT !.v = FormulaV(cell.v.s)] ELSE cell

cloneCells(templateCells) ==
  Normalize([x \in DOMAIN templateCells |-> cloneCell(templateCells[x])])

\* a clearing loop that clears nothing
clearProductRowsSkipsNothing(cells, startRow) == cells

\* the clearing loop: cell.value = null on rowsToScan rows from startRow, in
\* columns 1..clearColumns; the style stays
clearProductRows(cells, startRow) ==
  Normalize([x \in DOMAIN cells |->
     IF /\ x[1] >= startRow /\ x[1] <= startRow + rowsToScan - 1
        /\ x[2] >= 1 /\ x[2] <= clearColumns
     THEN [cells[x] EXCEPT !.v = NullV]
     ELSE cells[x]])

\* x || d for strings
OrStr(x, d) == IF x = <<>> THEN d ELSE x

\* sizes.forEach in generateExcel: '' into each size cell, centered
writeSizeCells(cells, rowIndex, n) ==
  LET cols == {firstSizeColumn + j : j \in 0..(n - 1)}
      dom == (DOMAIN cells) \cup {<<rowIndex, c>> : c \in cols}
  IN [x \in dom |->
        IF x[1] = rowIndex /\ x[2] \in cols
        THEN [GetCell(cells, x[1], x[2]) EXCEPT !.v = StrV(<<>>), !.align = "center"]
        ELSE cells[x]]

\* sizes.forEach in generateSeparateExcelFiles: '' into each size cell
writeSizeCellsSeparate(cells, rowIndex, n) ==
  LET cols == {firstSizeColumn + j : j \in 0..(n - 1)}
      dom == (DOMAIN cells) \cup {<<rowIndex, c>> : c \in cols}
  IN [x \in dom |->
        IF x[1] = rowIndex /\ x[2] \in cols
        THEN [GetCell(cells, x[1], x[2]) EXCEPT !.v = StrV(<<>>)]
        ELSE cells[x]]

\* the attribute cells 4..12, written alike by both functions
writeCommonAttributes(cells, r, product) ==
  LET a4 == SetValue(cells, r, 4, StrV(product.color))
      a5 == SetValue(a4, r, 5, StrV(product.colorCode))
      a6 == SetValue(a5, r, 6, StrV(product.season))
      a7 == SetValue(a6, r, 7, StrV(OrStr(product.evergreen, <<"N", "o">>)))
      a8 == SetValue(a7, r, 8, StrV(product.countryOfOrigin))
      a9 == SetValue(a8, r, 9, StrV(product.fabrication))
      a10 == SetValue(a9, r, 10, StrV(product.materialComposition))
      a11 == SetValue(a10, r, 11, StrV(product.category))
      a12 == SetValue(a11, r, 12, StrV(product.subcategory))
  IN a12

\* generateExcel, "Set product data in cells" to the end of the loop body
writeProductCells(cells, r, product) ==
  LET a2 == SetValue(cells, r, 2, StrV(product.name))
      a3 == SetValue(a2, r, 3, StrV(product.styleNumber))
      a12 == writeCommonAttributes(a3, r, product)
      a13 == SetValue(a12, r, 13, StrV(product.sizeBreak))
      w1 == SetValue(a13, r, wholesalePriceColumn, NumV(product.wholesalePrice))
      w2 == SetNumFmt(w1, r, wholesalePriceColumn, CURRENCY)
      r1 == SetValue(w2, r, retailPriceColumn, NumV(product.suggRetailPrice))
      r2 == SetNumFmt(r1, r, retailPriceColumn, CURRENCY)
  IN writeSizeCells(r2, r, sizes(product.sizeBreak))

\* generateSeparateExcelFiles, the same part
writeProductCellsSeparate(cells, r, product) ==
  LET a2 == SetValue(cells, r, 2, StrV(product.styleNumber))
      a3 == SetValue(a2, r, 3, StrV(product.name))
      a12 == writeCommonAttributes(a3, r, product)
      a13 == SetValue(a12, r, 13, StrV(OrStr(product.sizeBreak, <<"1">>)))
      w1 == SetValue(a13, r, wholesalePriceColumnSeparate, NumV(product.wholesalePrice))
      w2 == SetNumFmt(w1, r, wholesalePriceColumnSeparate, CURRENCY)
      r1 == SetValue(w2, r, retailPriceColumnSeparate, NumV(product.suggRetailPrice))
      r2 == SetNumFmt(r1, r, retailPriceColumnSeparate, CURRENCY)
  IN writeSizeCellsSeparate(r2, r, sizes(product.sizeBreak))

\* product.image && !product.image.includes('/api/placeholder/') throws a
\* TypeError when the image is truthy and has no includes method
imageTestThrows(product) == product.image = ObjectImage

\* product.image && !product.image.includes('/api/placeholder/')
hasUsableImage(product) ==
  product.image # <<>> /\ ~Includes(product.image, PLACEHOLDER)

Lower(ch) ==
  CASE ch = "J" -> "j" [] ch = "P" -> "p" [] ch = "G" -> "g" [] ch = "E" -> "e"
    [] OTHER -> ch

toLowerCase(s) == [i \in 1..Len(s) |-> Lower(s[i])]

endsWith(s, suffix) ==
  Len(s) >= Len(suffix) /\ SubSeq(s, Len(s) - Len(suffix) + 1, Len(s)) = suffix

\* "Determine image extension from URL or default to png"
imageExtension(image) ==
  IF \/ endsWith(toLowerCase(image), <<".", "j", "p", "g">>)
     \/ endsWith(toLowerCase(image), <<".", "j", "p", "e", "g">>)
  THEN "jpeg" ELSE "png"

(* ------------------------ coordinates and formulas --------------------- *)

LETTERS == <<"A", "B", "C", "D", "E", "F", "G", "H", "I", "J", "K", "L", "M",
             "N", "O", "P", "Q", "R", "S", "T", "U", "V", "W", "X", "Y", "Z">>

\* a remainder taken without the shift to 0-based letters
getExcelColumnTempUnshifted(column) == column % 26

\* temp = (column - 1) % 26
getExcelColumnTemp(column) == (column - 1) % 26

\* getExcelColumn: the while loop, one letter per turn, prepended
RECURSIVE getExcelColumnFrom(_, _)
getExcelColumnFrom(column, letter) ==
  IF column > 0
  THEN LET temp == getExcelColumnTemp(column)
       IN getExcelColumnFrom((column - temp - 1) \div 26, <<LETTERS[temp + 1]>> \o letter)
  ELSE letter

getExcelColumn(column) == getExcelColumnFrom(column, <<>>)

DIGITS == <<"0", "1", "2", "3", "4", "5", "6", "7", "8", "9">>

\* `${rowNumber}`: a non-negative integer as its decimal digits
RECURSIVE NumberToString(_)
NumberToString(n) ==
  IF n < 10 THEN <<DIGITS[n + 1]>>
  ELSE NumberToString(n \div 10) \o <<DIGITS[(n % 10) + 1]>>

\* `SUM(${firstSizeColLetter}${rowNumber}:${lastSizeColLetter}${rowNumber})`
sumFormula(firstLetter, lastLetter, rowNumber) ==
  <<"S", "U", "M", "(">> \o firstLetter \o NumberToString(rowNumber) \o <<":">>
    \o lastLetter \o NumberToString(rowNumber) \o <<")">>

\* `${unitsColLetter}${rowNumber}*${priceColLetter}${rowNumber}`
timesFormula(unitsLetter, priceLetter, rowNumber) ==
  unitsLetter \o NumberToString(rowNumber) \o <<"*">> \o priceLetter \o NumberToString(rowNumber)

(* ------------------------------- state --------------------------------- *)

VARIABLES
  company,       \* company.name of the request
  catalogs,      \* the request's catalogs
  outputType,    \* "combined" or "separate"
  templateFile,  \* what the template path holds
  pc,            \* where generation stands
  workbook,      \* the workbook being built
  ci,            \* index of the catalog being processed
  pi,            \* index of the product being processed
  filename,      \* the filename computed for the current workbook
  files,         \* result.files of generateSeparateExcelFiles
  result,        \* what generateExcel gave its caller
  readLog,       \* per workbook: how the template read went
  writeLog,      \* per workbook: the serialization attempts and recovery passes
  fetchCall,     \* a call of fetchImageBuffer: its argument, position, requests
  columnCall,    \* a call of getExcelColumn: its argument and the loop's variables
  response,      \* what the generate-linesheet handler sent: status and body
  styles,        \* the style objects of the cells of a cloned sheet, by reference
  orderSummary,  \* addOrderSummarySheet: its loops, its categories, its summaryData
  graphqlCall,   \* a call of graphqlRequest: its position
  sessions       \* two generation requests served by one process

vars == <<company, catalogs, outputType, templateFile, pc, workbook, ci, pi,
          filename, files, result, readLog, writeLog, fetchCall, columnCall,
          response, styles, orderSummary, graphqlCall, sessions>>

\* the variables of a generation
generationVars == <<company, catalogs, outputType, templateFile, pc, workbook, ci, pi,
                    filename, files, result, readLog, writeLog>>

\* the helper calls that are followed on their own
helperCalls == <<fetchCall, columnCall, response, styles, orderSummary, graphqlCall,
                 sessions>>

\* no response has been sent
NoResponse == [status |-> 0, body |-> "none"]

\* no sheet is being cloned by reference
NoStyles == [at |-> "idle"]

\* addOrderSummarySheet is not being followed
NoSummary == [at |-> "idle"]

\* no call of graphqlRequest is being followed
NoGraphql == [at |-> "idle"]

\* no pair of requests is being followed
NoSessions == [at |-> "idle"]

\* no call of fetchImageBuffer is being followed
NoFetch == [imageUrl |-> <<>>, at |-> "idle", optimizedUrl |-> <<>>, requests |-> <<>>,
            responses |-> <<>>, outcome |-> "none"]

\* no call of getExcelColumn is being followed
NoColumn == [n |-> 0, column |-> 0, letter |-> <<>>, at |-> "idle"]

request == <<company, catalogs, outputType, templateFile>>

\* workbook.xlsx.writeBuffer(): the bytes of the workbook as it is now
Buffer(wb) == [empty |-> FALSE, sheets |-> wb.sheets, creator |-> wb.creator]

NoBuffer == [empty |-> TRUE, sheets |-> <<>>, creator |-> ""]

\* what the caller of generateExcel gets: "none" while it runs, "single" for
\* { buffer, filename }, "files" for { files, outputType }, "null" for a
\* returned null, "error" for a rejected promise
Result(kind, buffer, name, fs) ==
  [kind |-> kind, buffer |-> buffer, filename |-> name, files |-> fs, error |-> "none"]

\* the promise of generateExcel rejected with the error thrown at `origin`
Rejected(origin) == [Result("error", NoBuffer, <<>>, <<>>) EXCEPT !.error = origin]

NoResult == Result("none", NoBuffer, <<>>, <<>>)

XLSX == <<".", "x", "l", "s", "x">>

LINESHEET_XLSX == <<"_", "L", "i", "n", "e", "s", "h", "e", "e", "t">> \o XLSX

\* the workbooks of a request: one in generateExcel's own path, one per
\* catalog in generateSeparateExcelFiles
\* a dispatch on the output type alone
IsSeparateAnyCount == outputType = "separate"

\* line 128: generateSeparateExcelFiles is used for 'separate' with more than
\* one catalog
IsSeparate == outputType = "separate" /\ Len(catalogs) > 1

Workbooks == IF IsSeparate THEN 1..Len(catalogs) ELSE {1}

CurrentWorkbook == IF IsSeparate THEN ci ELSE 1

Init ==
  /\ company \in CompanyNames
  /\ catalogs \in CatalogLists
  /\ outputType \in OutputTypes
  /\ templateFile \in TemplateFiles
  /\ pc = IF IsSeparate THEN "sep_load" ELSE "load"
  /\ workbook = NewWorkbook
  /\ ci = 1
  /\ pi = 1
  /\ filename = <<>>
  /\ files = <<>>
  /\ result = NoResult
  /\ readLog = [w \in 1..Len(catalogs) |-> "none"]
  /\ writeLog = [w \in 1..Len(catalogs) |-> <<>>]
  /\ fetchCall = NoFetch
  /\ columnCall = NoColumn
  /\ response = NoResponse
  /\ styles = NoStyles
  /\ orderSummary = NoSummary
  /\ graphqlCall = NoGraphql
  /\ sessions = NoSessions

(* --------------------- generateExcel: one workbook --------------------- *)

\* the fallback of the catch around readFile: a workbook made from scratch
\* with two empty sheets
FallbackWorkbook ==
  addWorksheet(addWorksheet([NewWorkbook EXCEPT !.creator = LINESHEET_GENERATOR],
                            WINTER_25), ORDER_SUMMARY)

ReplaceSheet(wb, idx, sh) == [wb EXCEPT !.sheets[idx] = sh]

\* ExcelJS refuses a sheet name the workbook already has in its version 4 and
\* accepts it in older versions; the repository pins none in its sources
NameTaken(wb, name, exceptId) ==
  \E i \in 1..Len(wb.sheets) : wb.sheets[i].name = name /\ wb.sheets[i].id # exceptId

NameOutcomes(wb, name, exceptId) ==
  IF NameTaken(wb, name, exceptId) THEN {"throws", "accepted"} ELSE {"accepted"}

\* lines 132-197: read the template (or fall back), find the two sheets,
\* convert the shared formulas
LoadTemplate ==
  /\ pc = "load"
  /\ \E readOk \in BOOLEAN :
       LET wb0 == IF readOk
                  THEN [NewWorkbook EXCEPT !.sheets = TemplateFileSheets(templateFile)]
                  ELSE FallbackWorkbook
           templateSheet == getWorksheet(wb0, WINTER_25)
           summarySheet == getWorksheet(wb0, ORDER_SUMMARY)
       IN /\ readLog' = [readLog EXCEPT ![1] = IF readOk THEN "ok" ELSE "failed"]
          /\ IF templateSheet = 0 \/ summarySheet = 0
             THEN /\ result' = Result("null", NoBuffer, <<>>, <<>>)
                  /\ pc' = "done"
                  /\ workbook' = wb0
             ELSE /\ workbook' = convertSharedFormulasToNormal(wb0)
                  /\ pc' = "catalog"
                  /\ UNCHANGED result
  /\ UNCHANGED <<request, helperCalls, ci, pi, filename, files, writeLog>>

\* where the loop over the catalogs goes after catalog ci
AfterCatalog ==
  IF ci < Len(catalogs)
  THEN /\ ci' = ci + 1
       /\ pi' = 1
       /\ pc' = "catalog"
  ELSE /\ pc' = "finalize"
       /\ UNCHANGED <<ci, pi>>

\* lines 200-293 for catalog ci: add its sheet, copy the template sheet into
\* it, stamp the two header cells, set the test formula, clear the product
\* rows; lines 296 and 393-395 when it has no product
AddCatalogSheet ==
  /\ pc = "catalog"
  /\ LET catalog == catalogs[ci]
         template == workbook.sheets[getWorksheet(workbook, WINTER_25)]
     IN \E outcome \in NameOutcomes(workbook, catalog.name, 0) :
          IF outcome = "throws"
          THEN /\ result' = Rejected("addWorksheet")
               /\ pc' = "done"
               /\ UNCHANGED <<workbook, ci, pi>>
          ELSE LET wb1 == addWorksheet(workbook, catalog.name)
                   idx == Len(wb1.sheets)
                   copied == cloneCells(template.cells)
                   b2 == SetValue(copied, 2, 2, StrV(company))
                   b3 == SetValue(b2, 3, 2, StrV(catalog.name))
                   d5 == SetValue(b3, 5, 4, FormulaV(<<"1", "0", "+", "2", "0">>))
                   cleared == clearProductRows(d5, productStartRow)
                   sheet == [wb1.sheets[idx] EXCEPT !.cells = cleared,
                                                    !.heights = template.heights]
               IN /\ workbook' = ReplaceSheet(wb1, idx, sheet)
                  /\ UNCHANGED result
                  /\ IF catalog.hasProducts /\ Len(catalog.products) > 0
                     THEN /\ pc' = "product"
                          /\ pi' = 1
                          /\ UNCHANGED ci
                     ELSE AfterCatalog
  /\ UNCHANGED <<request, helperCalls, filename, files, readLog, writeLog>>

\* what the image block of one product can leave on the sheet: nothing when
\* there is no usable image; otherwise the fetch gives bytes and the image is
\* embedded, or it gives null, or the embedding throws and is caught
ImageOutcomes(product) ==
  IF hasUsableImage(product) THEN {"embedded", "null", "embedError"} ELSE {"skipped"}

AddImage(sheet, rowIndex, product, outcome) ==
  IF outcome = "embedded"
  THEN [sheet EXCEPT !.images = @ \cup {[row |-> rowIndex,
                                         extension |-> imageExtension(product.image)]}]
  ELSE sheet

\* lines 303-392 for product pi of catalog ci
WriteProduct ==
  /\ pc = "product"
  /\ LET catalog == catalogs[ci]
         product == catalog.products[pi]
         rowIndex == productStartRow + (pi - 1)
         idx == Len(workbook.sheets)
         sheet0 == workbook.sheets[idx]
         sheet1 == [sheet0 EXCEPT !.heights = SetHeight(@, rowIndex, productRowHeight)]
     IN IF imageTestThrows(product)
        THEN /\ workbook' = ReplaceSheet(workbook, idx, sheet1)
             /\ result' = Rejected("product")
             /\ pc' = "done"
             /\ UNCHANGED <<ci, pi>>
        ELSE \E outcome \in ImageOutcomes(product) :
               LET sheet2 == AddImage(sheet1, rowIndex, product, outcome)
                   sheet3 == [sheet2 EXCEPT !.cells = writeProductCells(@, rowIndex, product)]
               IN /\ workbook' = ReplaceSheet(workbook, idx, sheet3)
                  /\ UNCHANGED result
                  /\ IF pi < Len(catalog.products)
                     THEN /\ pi' = pi + 1
                          /\ UNCHANGED <<pc, ci>>
                     ELSE AfterCatalog
  /\ UNCHANGED <<request, helperCalls, filename, files, readLog, writeLog>>

\* filename of generateExcel's own path
combinedFilename(name) == ReplaceSpaces(name) \o LINESHEET_XLSX

\* lines 398-411: remove the template sheet, convert the shared formulas once
\* more, compute the filename
Finalize ==
  /\ pc = "finalize"
  /\ LET templateSheet == workbook.sheets[getWorksheet(workbook, WINTER_25)]
     IN workbook' = convertSharedFormulasToNormal(removeWorksheet(workbook, templateSheet.id))
  /\ filename' = combinedFilename(company)
  /\ pc' = "write"
  /\ UNCHANGED <<request, helperCalls, ci, pi, files, result, readLog, writeLog>>

\* lines 413-419: the first writeBuffer
WriteBuffer ==
  /\ pc = "write"
  /\ \E ok \in BOOLEAN :
       IF ok
       THEN /\ writeLog' = [writeLog EXCEPT ![1] = Append(@, "written")]
            /\ result' = Result("single", Buffer(workbook), filename, <<>>)
            /\ pc' = "done"
       ELSE /\ writeLog' = [writeLog EXCEPT ![1] = Append(@, "failed")]
            /\ pc' = "recover"
            /\ UNCHANGED result
  /\ UNCHANGED <<request, helperCalls, workbook, ci, pi, filename, files, readLog>>

\* lines 420-438: the recovery pass of the catch
Recover ==
  /\ pc = "recover"
  /\ workbook' = removeFormulas(workbook)
  /\ writeLog' = [writeLog EXCEPT ![1] = Append(@, "recovered")]
  /\ pc' = "retry"
  /\ UNCHANGED <<request, helperCalls, ci, pi, filename, files, result, readLog>>

\* a retry that goes back to the recovery pass when it fails
RetryAgain ==
  /\ pc = "retry"
  /\ \E ok \in BOOLEAN :
       IF ok
       THEN /\ writeLog' = [writeLog EXCEPT ![1] = Append(@, "written")]
            /\ result' = Result("single", Buffer(workbook), filename, <<>>)
            /\ pc' = "done"
       ELSE /\ writeLog' = [writeLog EXCEPT ![1] = Append(@, "failed")]
            /\ pc' = "recover"
            /\ UNCHANGED result
  /\ UNCHANGED <<request, helperCalls, workbook, ci, pi, filename, files, readLog>>

\* lines 440-445: the second writeBuffer, outside any try
Retry ==
  /\ pc = "retry"
  /\ \E ok \in BOOLEAN :
       IF ok
       THEN /\ writeLog' = [writeLog EXCEPT ![1] = Append(@, "written")]
            /\ result' = Result("single", Buffer(workbook), filename, <<>>)
       ELSE /\ writeLog' = [writeLog EXCEPT ![1] = Append(@, "failed")]
            /\ result' = Rejected("writeBuffer")
  /\ pc' = "done"
  /\ UNCHANGED <<request, helperCalls, workbook, ci, pi, filename, files, readLog>>

(* ------------- generateSeparateExcelFiles: a workbook per catalog ------ *)

\* `continue`, or the end of the loop body: the next catalog, or line 670,
\* return result
NextCatalog(fs) ==
  IF ci < Len(catalogs)
  THEN /\ ci' = ci + 1
       /\ pi' = 1
       /\ pc' = "sep_load"
       /\ UNCHANGED result
  ELSE /\ pc' = "done"
       /\ result' = Result("files", NoBuffer, <<>>, fs)
       /\ UNCHANGED <<ci, pi>>

\* lines 461-523 for catalog ci: a new workbook read from the template, its
\* shared formulas fixed, the template sheet renamed and stamped, the product
\* rows cleared; a failed read or a missing sheet skips the catalog
LoadTemplateSeparate ==
  /\ pc = "sep_load"
  /\ \E readOk \in BOOLEAN :
       LET catalog == catalogs[ci]
           wb0 == fixSharedFormulasSeparate(
                    [NewWorkbook EXCEPT !.sheets = TemplateFileSheets(templateFile)])
           templateSheet == getWorksheet(wb0, WINTER_25)
           summarySheet == getWorksheet(wb0, ORDER_SUMMARY)
       IN /\ readLog' = [readLog EXCEPT ![ci] = IF readOk THEN "ok" ELSE "failed"]
          /\ IF ~readOk
             THEN /\ workbook' = NewWorkbook
                  /\ NextCatalog(files)
             ELSE IF templateSheet = 0 \/ summarySheet = 0
             THEN /\ workbook' = wb0
                  /\ NextCatalog(files)
             ELSE \E outcome \in NameOutcomes(wb0, catalog.name, wb0.sheets[templateSheet].id) :
                    IF outcome = "throws"
                    THEN /\ workbook' = wb0
                         /\ result' = Rejected("worksheet.name")
                         /\ pc' = "done"
                         /\ UNCHANGED <<ci, pi>>
                    ELSE LET sheet0 == wb0.sheets[templateSheet]
                             b2 == SetValue(sheet0.cells, 2, 2, StrV(company))
                             b3 == SetValue(b2, 3, 2, StrV(catalog.name))
                             cleared == clearProductRows(b3, productStartRowSeparate)
                             sheet == [sheet0 EXCEPT !.name = catalog.name, !.cells = cleared]
                         IN /\ workbook' = ReplaceSheet(wb0, templateSheet, sheet)
                            /\ UNCHANGED <<ci, result>>
                            /\ pi' = 1
                            /\ pc' = IF catalog.hasProducts /\ Len(catalog.products) > 0
                                     THEN "sep_product" ELSE "sep_write"
  /\ UNCHANGED <<request, helperCalls, filename, files, writeLog>>

\* the sheet generateSeparateExcelFiles writes into: the renamed template
\* sheet, the first sheet of the file
SeparateSheetIndex == 1

\* lines 533-613 for product pi of catalog ci
WriteProductSeparate ==
  /\ pc = "sep_product"
  /\ LET catalog == catalogs[ci]
         product == catalog.products[pi]
         rowIndex == productStartRowSeparate + (pi - 1)
         idx == SeparateSheetIndex
         sheet0 == workbook.sheets[idx]
         sheet1 == [sheet0 EXCEPT !.heights = SetHeight(@, rowIndex, productRowHeight)]
     IN IF imageTestThrows(product)
        THEN /\ workbook' = ReplaceSheet(workbook, idx, sheet1)
             /\ result' = Rejected("product")
             /\ pc' = "done"
             /\ UNCHANGED pi
        ELSE \E outcome \in ImageOutcomes(product) :
               LET sheet2 == AddImage(sheet1, rowIndex, product, outcome)
                   sheet3 == [sheet2 EXCEPT !.cells = writeProductCellsSeparate(@, rowIndex, product)]
               IN /\ workbook' = ReplaceSheet(workbook, idx, sheet3)
                  /\ UNCHANGED result
                  /\ IF pi < Len(catalog.products)
                     THEN /\ pi' = pi + 1
                          /\ UNCHANGED pc
                     ELSE /\ pc' = "sep_write"
                          /\ UNCHANGED pi
  /\ UNCHANGED <<request, helperCalls, ci, filename, files, readLog, writeLog>>

\* line 617
separateFilename(name, catalogName) ==
  ReplaceSpaces(name) \o <<"_">> \o ReplaceSpaces(catalogName) \o XLSX

\* an entry that carries its position in the list
FileByPosition(buffer, name, catalogId) ==
  [buffer |-> buffer, filename |-> name, catalogId |-> Len(files) + 1]

File(buffer, name, catalogId) ==
  [buffer |-> buffer, filename |-> name, catalogId |-> catalogId]

\* lines 616-631: the filename and the first writeBuffer of catalog ci
WriteBufferSeparate ==
  /\ pc = "sep_write"
  /\ LET catalog == catalogs[ci]
         name == separateFilename(company, catalog.name)
     IN /\ filename' = name
        /\ \E ok \in BOOLEAN :
             IF ok
             THEN /\ writeLog' = [writeLog EXCEPT ![ci] = Append(@, "written")]
                  /\ files' = Append(files, File(Buffer(workbook), name, catalog.id))
                  /\ NextCatalog(files')
             ELSE /\ writeLog' = [writeLog EXCEPT ![ci] = Append(@, "failed")]
                  /\ pc' = "sep_recover"
                  /\ UNCHANGED <<files, result, ci, pi>>
  /\ UNCHANGED <<request, helperCalls, workbook, readLog>>

\* lines 631-650: the recovery pass of the catch
RecoverSeparate ==
  /\ pc = "sep_recover"
  /\ workbook' = removeFormulas(workbook)
  /\ writeLog' = [writeLog EXCEPT ![ci] = Append(@, "recovered")]
  /\ pc' = "sep_retry"
  /\ UNCHANGED <<request, helperCalls, ci, pi, filename, files, result, readLog>>

\* lines 652-667: the second writeBuffer, whose failure is caught and logged
RetrySeparate ==
  /\ pc = "sep_retry"
  /\ \E ok \in BOOLEAN :
       IF ok
       THEN /\ writeLog' = [writeLog EXCEPT ![ci] = Append(@, "written")]
            /\ files' = Append(files, File(Buffer(workbook), filename, catalogs[ci].id))
            /\ NextCatalog(files')
       ELSE /\ writeLog' = [writeLog EXCEPT ![ci] = Append(@, "failed")]
            /\ UNCHANGED files
            /\ NextCatalog(files)
  /\ UNCHANGED <<request, helperCalls, workbook, filename, readLog>>

Next ==
  \/ LoadTemplate
  \/ AddCatalogSheet
  \/ WriteProduct
  \/ Finalize
  \/ WriteBuffer
  \/ Recover
  \/ Retry
  \/ LoadTemplateSeparate
  \/ WriteProductSeparate
  \/ WriteBufferSeparate
  \/ RecoverSeparate
  \/ RetrySeparate

Spec == Init /\ [][Next]_vars

(* ------------------------- what has been written ----------------------- *)

Written(sheet, startRow, products, separate) ==
  [cells |-> sheet.cells, startRow |-> startRow, written |-> products, separate |-> separate]

\* the catalog sheets that exist in the workbook being built by generateExcel,
\* each with the products written into it so far (catalog k's sheet is the
\* k-th sheet added after the two of the template)
PopulatedCombined ==
  { Written(workbook.sheets[SheetIndexById(workbook, 2 + k)], productStartRow,
            IF k = ci /\ (pc = "product" \/ result.error = "product")
            THEN SubSeq(catalogs[k].products, 1, pi - 1)
            ELSE catalogs[k].products, FALSE) :
      k \in { j \in 1..Len(catalogs) : SheetIndexById(workbook, 2 + j) # 0 } }

\* the sheet being built by generateSeparateExcelFiles and the sheets of the
\* files it has produced
PopulatedSeparate ==
  (IF pc \in {"sep_product", "sep_write", "sep_recover", "sep_retry"}
   THEN { Written(workbook.sheets[SeparateSheetIndex], productStartRowSeparate,
                  IF pc = "sep_product"
                  THEN SubSeq(catalogs[ci].products, 1, pi - 1)
                  ELSE catalogs[ci].products, TRUE) }
   ELSE {})
  \cup { Written(files[j].buffer.sheets[SeparateSheetIndex], productStartRowSeparate,
                 catalogs[files[j].catalogId].products, TRUE) : j \in 1..Len(files) }

PopulatedSheets == IF IsSeparate THEN PopulatedSeparate ELSE PopulatedCombined

\* the product rows written so far
RowsOf(ps) ==
  { [cells |-> ps.cells, row |-> ps.startRow + i - 1, product |-> ps.written[i],
     separate |-> ps.separate] : i \in 1..Len(ps.written) }

AllWrittenRows == UNION { RowsOf(ps) : ps \in PopulatedSheets }

FailedTwice(w) ==
  Len(SelectSeq(writeLog[w], LAMBDA e : e = "failed")) >= 2

(* ------------------------------- C1 ------------------------------------ *)

WriteLogs ==
  { <<>>, <<"written">>, <<"failed">>, <<"failed", "recovered">>,
    <<"failed", "recovered", "written">>, <<"failed", "recovered", "failed">> }

\* C1: every workbook, the one of combined mode and each per-catalog one of
\* separate mode, is serialized at most twice; a second serialization comes
\* only after a failed first one and a completed recovery pass, which has left
\* no formula cell in the workbook when the retry is made.
C1_SerializedAtMostTwice ==
  /\ \A w \in Workbooks : writeLog[w] \in WriteLogs
  /\ pc \in {"retry", "sep_retry"} =>
       /\ writeLog[CurrentWorkbook] = <<"failed", "recovered">>
       /\ ~HasFormula(workbook)

\* a per-catalog workbook of separate mode and the workbook of combined mode
\* have both been retried
C1_Witness ==
  /\ pc = "done"
  /\ \E w \in Workbooks : Len(writeLog[w]) = 3 /\ (IsSeparate => w = 2)

(* ------------------------------- C2 ------------------------------------ *)

\* C2: when the first serialization of a workbook and the retry after the
\* recovery pass both fail, generate ends in an error reported to the caller,
\* in every output mode.
C2_DoubleFailureIsReported ==
  (pc = "done" /\ \E w \in Workbooks : FailedTwice(w)) => result.kind = "error"

(* ------------------------------- C3 ------------------------------------ *)

TemplateUnusable(w) ==
  \/ readLog[w] = "failed"
  \/ readLog[w] = "ok" /\ templateFile # "good"

\* C3: when the template cannot be read or lacks the template sheet or the
\* summary sheet, generate ends with a reported error in every output mode.
C3_TemplateFailureIsReported ==
  (pc = "done" /\ \E w \in Workbooks : TemplateUnusable(w)) => result.kind = "error"

(* ------------------------------- C4 ------------------------------------ *)

ValidSizeBreaks == { <<"1">>, <<"2">>, <<"3">>, <<"4">> }

\* the number of size labels of each size break, from the SIZE_BREAKS table
LabelCount(sizeBreak) ==
  CASE sizeBreak = <<"1">> -> 20 [] sizeBreak = <<"2">> -> 10
    [] sizeBreak = <<"3">> -> 6 [] sizeBreak = <<"4">> -> 1

WholesaleCell(w) ==
  GetCell(w.cells, w.row,
          IF w.separate THEN wholesalePriceColumnSeparate ELSE wholesalePriceColumn)

RetailCell(w) ==
  GetCell(w.cells, w.row,
          IF w.separate THEN retailPriceColumnSeparate ELSE retailPriceColumn)

\* C4: after a product row is written, its wholesale-price cell holds the
\* product's wholesalePrice and its retail-price cell its suggRetailPrice
\* (0 when absent), both in the currency format, for every size break "1".."4"
\* and in both modes.
C4_PriceCellsHoldPrices ==
  \A w \in AllWrittenRows :
    w.product.sizeBreak \in ValidSizeBreaks =>
      /\ WholesaleCell(w).v = NumV(w.product.wholesalePrice)
      /\ WholesaleCell(w).numFmt = CURRENCY
      /\ RetailCell(w).v = NumV(w.product.suggRetailPrice)
      /\ RetailCell(w).numFmt = CURRENCY

(* ------------------------------- C5 ------------------------------------ *)

\* the rows from startRow on that hold a value in an attribute column
DataRows(cells, startRow) ==
  { x[1] : x \in { y \in DOMAIN cells :
                     y[1] >= startRow /\ y[2] \in 2..13 /\ cells[y].v # NullV } }

AttributeValue(w, col) == GetCell(w.cells, w.row, col).v

AttributesInPlace(w) ==
  /\ AttributeValue(w, IF w.separate THEN 3 ELSE 2) = StrV(w.product.name)
  /\ AttributeValue(w, IF w.separate THEN 2 ELSE 3) = StrV(w.product.styleNumber)
  /\ AttributeValue(w, 4) = StrV(w.product.color)
  /\ AttributeValue(w, 5) = StrV(w.product.colorCode)
  /\ AttributeValue(w, 6) = StrV(w.product.season)
  /\ AttributeValue(w, 7) =
       StrV(IF w.product.evergreen = <<>> THEN <<"N", "o">> ELSE w.product.evergreen)
  /\ AttributeValue(w, 8) = StrV(w.product.countryOfOrigin)
  /\ AttributeValue(w, 9) = StrV(w.product.fabrication)
  /\ AttributeValue(w, 10) = StrV(w.product.materialComposition)
  /\ AttributeValue(w, 11) = StrV(w.product.category)
  /\ AttributeValue(w, 12) = StrV(w.product.subcategory)
  /\ w.product.sizeBreak # <<>> => AttributeValue(w, 13) = StrV(w.product.sizeBreak)

DuplicateCatalogNames ==
  \E j, k \in 1..Len(catalogs) : j < k /\ catalogs[j].name = catalogs[k].name

BlankSizeColumns(w) ==
  { x[2] : x \in { y \in DOMAIN w.cells :
                     y[1] = w.row /\ y[2] >= firstSizeColumn /\ w.cells[y].v = StrV(<<>>) } }

\* C6: a written row of a product whose sizeBreak is one of "1".."4" has its
\* blank size-quantity cells exactly at the columns firstSizeColumn + j, j
\* below the number of labels of the size break (6 for "3").
C6_SizeCellsBlank ==
  \A w \in AllWrittenRows :
    w.product.sizeBreak \in ValidSizeBreaks =>
      BlankSizeColumns(w) =
        { firstSizeColumn + j : j \in 0..(LabelCount(w.product.sizeBreak) - 1) }

\* a row of size break "3" with its six blank cells, and one of size break "1"
\* with its twenty, in a finished generation
C6_Witness ==
  /\ pc = "done"
  /\ \E w \in AllWrittenRows :
       w.product.sizeBreak = <<"3">> /\ BlankSizeColumns(w) = 17..22
  /\ \E w \in AllWrittenRows :
       w.product.sizeBreak = <<"1">> /\ BlankSizeColumns(w) = 17..36

(* ------------------------------- C7 ------------------------------------ *)

\* C7: a written row of a product whose sizeBreak is absent or not one of
\* "1".."4" has no size-quantity cell, and its size-break cell shows "1".
C7_UnknownSizeBreak ==
  \A w \in AllWrittenRows :
    w.product.sizeBreak \notin ValidSizeBreaks =>
      /\ BlankSizeColumns(w) = {}
      /\ AttributeValue(w, 13) = StrV(<<"1">>)

(* ------------------------------- C8 ------------------------------------ *)

FormulaColumns(w, text) ==
  { x[2] : x \in { y \in DOMAIN w.cells :
                     y[1] = w.row /\ w.cells[y].v.t = "formula" /\ w.cells[y].v.s = text } }

\* C8: every written product row carries a units formula that sums the row's
\* own size-quantity range, and a total-wholesale and a total-retail formula
\* that multiply the units cell by the row's price cells.
C8_RowFormulas ==
  \A w \in AllWrittenRows :
    w.product.sizeBreak \in ValidSizeBreaks =>
      LET n == LabelCount(w.product.sizeBreak)
          wholesale == IF w.separate THEN wholesalePriceColumnSeparate ELSE wholesalePriceColumn
          retail == IF w.separate THEN retailPriceColumnSeparate ELSE retailPriceColumn
          units == FormulaColumns(w, sumFormula(getExcelColumn(firstSizeColumn),
                                                getExcelColumn(firstSizeColumn + n - 1), w.row))
      IN /\ units # {}
         /\ \E u \in units :
              /\ FormulaColumns(w, timesFormula(getExcelColumn(u), getExcelColumn(wholesale), w.row)) # {}
              /\ FormulaColumns(w, timesFormula(getExcelColumn(u), getExcelColumn(retail), w.row)) # {}

(* ------------------------------- C9 ------------------------------------ *)

\* C9: a single-workbook result is named {company}_{catalogName}.xlsx when the
\* generation covers one catalog and {company}_Linesheet.xlsx when it covers
\* several, whitespace runs replaced by "_".
C9_Filename ==
  (pc = "done" /\ result.kind = "single") =>
    result.filename =
      IF Len(catalogs) = 1
      THEN ReplaceSpaces(company) \o <<"_">> \o ReplaceSpaces(catalogs[1].name) \o XLSX
      ELSE ReplaceSpaces(company) \o LINESHEET_XLSX

(* ------------------------------- C10 ----------------------------------- *)

\* C10: in separate mode with more than one catalog, generate returns exactly
\* one file per input catalog, each with a non-empty buffer, under pairwise
\* distinct filenames.
C10_OneFilePerCatalog ==
  (pc = "done" /\ IsSeparate) =>
    /\ result.kind = "files"
    /\ Len(result.files) = Len(catalogs)
    /\ \A k \in 1..Len(catalogs) :
         \E j \in 1..Len(result.files) : result.files[j].catalogId = catalogs[k].id
    /\ \A j \in 1..Len(result.files) : ~result.files[j].buffer.empty
    /\ \A i, j \in 1..Len(result.files) :
         i # j => result.files[i].filename # result.files[j].filename

(* ------------------------------- C11 ----------------------------------- *)

\* the steps of generateExcel's own path; none of them reads outputType
OwnPathStep ==
  \/ LoadTemplate
  \/ AddCatalogSheet
  \/ WriteProduct
  \/ Finalize
  \/ WriteBuffer
  \/ Recover
  \/ Retry

OwnPathPositions == {"load", "catalog", "product", "finalize", "write", "recover", "retry", "done"}

\* C11: with a single catalog the generation is the same for outputType
\* "separate" as for "combined": it starts at the same place, every step is a
\* step of generateExcel's own path (which does not look at outputType), and
\* the result is one buffer under the filename of that path with no files
\* list, the buffer holding the sheets of the workbook as built.
C11_SingleCatalogSeparateIsCombined ==
  /\ [](Len(catalogs) = 1 =>
          /\ pc \in OwnPathPositions
          /\ result.kind \in {"none", "single", "null", "error"}
          /\ result.files = <<>>
          /\ result.kind = "single" =>
               /\ result.filename = combinedFilename(company)
               /\ result.buffer = Buffer(workbook))
  /\ [][Len(catalogs) = 1 => OwnPathStep]_vars

\* a generation for one catalog with a product, asked for as "separate", has
\* given its single workbook
C11_Witness ==
  /\ Len(catalogs) = 1
  /\ outputType = "separate"
  /\ pc = "done"
  /\ result.kind = "single"
  /\ Len(catalogs[1].products) > 0

(* ------------------------------- C12 ----------------------------------- *)

SheetNames(wb) == [i \in 1..Len(wb.sheets) |-> wb.sheets[i].name]

UniqueSheetNames(wb) ==
  \A i, j \in 1..Len(wb.sheets) : i # j => wb.sheets[i].name # wb.sheets[j].name

SheetFormulas(sheet) ==
  { sheet.cells[x].v : x \in { y \in DOMAIN sheet.cells : sheet.cells[y].v.t = "formula" } }

WorkbookFormulas(wb) == UNION { SheetFormulas(wb.sheets[i]) : i \in 1..Len(wb.sheets) }

\* C13: whenever a workbook is about to be serialized, in generateExcel's own
\* path and for each workbook of generateSeparateExcelFiles, at the first
\* attempt and at the retry, every formula cell of every sheet holds a formula
\* text of its own and no link to a shared formula.
C13_NoSharedFormulaAtSerialization ==
  pc \in {"write", "retry", "sep_write", "sep_retry"} =>
    \A v \in WorkbookFormulas(workbook) : ~v.shared /\ v.s # <<>>

\* a combined workbook about to be serialized whose catalog sheet holds the
\* copy of a shared formula of the template sheet and whose summary sheet
\* still holds its formulas
C13_Witness ==
  /\ pc = "write"
  /\ ~IsSeparate
  /\ readLog[1] = "ok"
  /\ \E i \in 1..Len(workbook.sheets) :
       /\ workbook.sheets[i].name # ORDER_SUMMARY
       /\ GetCell(workbook.sheets[i].cells, 4, 6).v = FormulaV(<<"A", "1">>)
  /\ GetCell(workbook.sheets[getWorksheet(workbook, ORDER_SUMMARY)].cells, 5, 5).v.t = "formula"

(* ------------------- fetchImageBuffer, followed on its own ------------- *)

\* str.lastIndexOf(ch): 0-based, -1 when ch does not occur
lastIndexOf(s, ch) ==
  IF \E i \in 1..Len(s) : s[i] = ch
  THEN (CHOOSE i \in 1..Len(s) : s[i] = ch /\ \A j \in (i + 1)..Len(s) : s[j] # ch) - 1
  ELSE 0 - 1

\* str.indexOf(ch, from): 0-based, -1 when ch does not occur from there on
indexOf(s, ch, from) ==
  IF \E i \in (from + 1)..Len(s) : s[i] = ch
  THEN (CHOOSE i \in (from + 1)..Len(s) : s[i] = ch /\ \A j \in (from + 1)..(i - 1) : s[j] # ch) - 1
  ELSE 0 - 1

\* str.substring(start, end), 0-based, end excluded
substring(s, start, end) == SubSeq(s, start + 1, end)

SUFFIX_150X == <<"_", "1", "5", "0", "x">>

\* getOptimizedImageUrl: "_150x" goes in before the extension, that is before
\* the last dot; a query string that follows the last dot stays at the end
getOptimizedImageUrl(imageUrl) ==
  IF imageUrl = <<>> \/ Includes(imageUrl, PLACEHOLDER)
  THEN imageUrl
  ELSE LET lastDotIndex == lastIndexOf(imageUrl, ".")
       IN IF lastDotIndex = 0 - 1
          THEN imageUrl
          ELSE LET queryIndex == indexOf(imageUrl, "?", lastDotIndex)
                   base == substring(imageUrl, 0, lastDotIndex)
               IN IF queryIndex = 0 - 1
                  THEN base \o SUFFIX_150X \o substring(imageUrl, lastDotIndex, Len(imageUrl))
                  ELSE base \o SUFFIX_150X \o substring(imageUrl, lastDotIndex, queryIndex)
                         \o substring(imageUrl, queryIndex, Len(imageUrl))

\* a test that lets placeholder references through
skipsFetchOnlyWhenEmpty(imageUrl) == imageUrl = <<>>

\* line 70: !imageUrl || imageUrl.includes('/api/placeholder/')
skipsFetch(imageUrl) == imageUrl = <<>> \/ Includes(imageUrl, PLACEHOLDER)

\* line 96: the fallback is tried when the original URL has no "_150x" in it
triesFallback(imageUrl) == ~Includes(imageUrl, SUFFIX_150X)

\* a fallback request outside any try
handlerOfUncaughtFallback(site) ==
  CASE site = "first" -> "outerCatch" [] site = "fallback" -> "none"

\* the catch that takes an error thrown at a request: the first axios.get is
\* in the outer try (lines 68-92), the fallback one in the try of lines 97-110
handlerOf(site) ==
  CASE site = "first" -> "outerCatch" [] site = "fallback" -> "innerCatch"

\* the references fetchImageBuffer is followed with: no reference, placeholder
\* references, and URLs with and without an extension, a query string and a
\* "_150x" of their own
UrlBases ==
  { <<"h", "/", "a">>, <<"h", "/", "a">> \o SUFFIX_150X, SUFFIX_150X \o <<"/", "a">> }

UrlExtensions == { <<>>, <<".", "j">>, <<".", "J", "P", "G">> }

UrlQueries == { <<>>, <<"?", "v">>, <<"?", "v", ".", "1">> }

ImageUrls ==
  { b \o e \o q : b \in UrlBases, e \in UrlExtensions, q \in UrlQueries }
    \cup { NoString, PlaceholderImage, <<"h">> \o PLACEHOLDER \o <<"4", ".", "j">> }

FetchInit ==
  /\ company = <<>>
  /\ catalogs = <<>>
  /\ outputType = "combined"
  /\ templateFile = "good"
  /\ pc = "idle"
  /\ workbook = NewWorkbook
  /\ ci = 1
  /\ pi = 1
  /\ filename = <<>>
  /\ files = <<>>
  /\ result = NoResult
  /\ readLog = <<>>
  /\ writeLog = <<>>
  /\ columnCall = NoColumn
  /\ response = NoResponse
  /\ styles = NoStyles
  /\ orderSummary = NoSummary
  /\ graphqlCall = NoGraphql
  /\ sessions = NoSessions
  /\ \E imageUrl \in ImageUrls :
       fetchCall = [NoFetch EXCEPT !.imageUrl = imageUrl, !.at = "called"]

\* return of fetchImageBuffer, or an error that leaves it
Returns(call, outcome) == [call EXCEPT !.at = "returned", !.outcome = outcome]

\* lines 68-88: the skip of empty and placeholder references, or the request
\* for the optimized URL
FetchEnter ==
  /\ fetchCall.at = "called"
  /\ fetchCall' =
       IF skipsFetch(fetchCall.imageUrl)
       THEN Returns(fetchCall, "null")
       ELSE LET optimizedUrl == getOptimizedImageUrl(fetchCall.imageUrl)
            IN [fetchCall EXCEPT !.optimizedUrl = optimizedUrl,
                                 !.requests = <<optimizedUrl>>,
                                 !.at = "first"]
  /\ UNCHANGED <<generationVars, columnCall, response, styles, orderSummary, graphqlCall, sessions>>

\* lines 90-113 after the first request: its bytes are returned, or its
\* error (network error, timeout, status outside 2xx) goes to the outer
\* catch, which makes the fallback request or returns null
FetchFirstSettles ==
  /\ fetchCall.at = "first"
  /\ \E ok \in BOOLEAN :
       LET call == [fetchCall EXCEPT !.responses = Append(@, IF ok THEN "ok" ELSE "error")]
       IN fetchCall' =
            IF ok
            THEN Returns(call, "bytes")
            ELSE IF handlerOf("first") # "outerCatch"
            THEN Returns(call, "raised")
            ELSE IF triesFallback(call.imageUrl)
            THEN [call EXCEPT !.requests = Append(@, call.imageUrl), !.at = "fallback"]
            ELSE Returns(call, "null")
  /\ UNCHANGED <<generationVars, columnCall, response, styles, orderSummary, graphqlCall, sessions>>

\* lines 106-113 after the fallback request: its bytes are returned, or its
\* error is caught and logged and null is returned
FetchFallbackSettles ==
  /\ fetchCall.at = "fallback"
  /\ \E ok \in BOOLEAN :
       LET call == [fetchCall EXCEPT !.responses = Append(@, IF ok THEN "ok" ELSE "error")]
       IN fetchCall' =
            IF ok
            THEN Returns(call, "bytes")
            ELSE IF handlerOf("fallback") = "innerCatch"
            THEN Returns(call, "null")
            ELSE Returns(call, "raised")
  /\ UNCHANGED <<generationVars, columnCall, response, styles, orderSummary, graphqlCall, sessions>>

FetchNext ==
  \/ FetchEnter
  \/ FetchFirstSettles
  \/ FetchFallbackSettles

FetchSpec == FetchInit /\ [][FetchNext]_vars

(* ------------------------------- C14 ----------------------------------- *)

\* C14: a call of fetchImageBuffer with an empty reference or one that holds
\* the placeholder pattern returns null at once and has made no request.
C14_PlaceholderIsNotFetched ==
  (fetchCall.at # "called" /\ (fetchCall.imageUrl = <<>> \/ Includes(fetchCall.imageUrl, PLACEHOLDER))) =>
    /\ fetchCall.at = "returned"
    /\ fetchCall.outcome = "null"
    /\ fetchCall.requests = <<>>

\* a call with a placeholder reference has returned
C14_Witness ==
  /\ fetchCall.at = "returned"
  /\ Includes(fetchCall.imageUrl, PLACEHOLDER)
  /\ fetchCall.outcome = "null"

(* ------------------------------- C15 ----------------------------------- *)

\* C15: at most two requests are made; once the first request has failed, a
\* second one has been made exactly when the optimized URL differs from the
\* original one; the second request goes to the original URL and never to a
\* URL already tried; no second request is made after a first that succeeded.
C15_FallbackExactlyWhenUrlsDiffer ==
  /\ Len(fetchCall.requests) <= 2
  /\ Len(fetchCall.responses) >= 1 =>
       (Len(fetchCall.requests) = 2 <=>
          (fetchCall.responses[1] = "error" /\ fetchCall.optimizedUrl # fetchCall.imageUrl))
  /\ Len(fetchCall.requests) = 2 =>
       /\ fetchCall.requests[2] = fetchCall.imageUrl
       /\ fetchCall.requests[2] # fetchCall.requests[1]

(* ------------------------------- C16 ----------------------------------- *)

\* C16: a call of fetchImageBuffer never ends in an error: it returns bytes,
\* after a request that succeeded, or null, and null whenever every request
\* it made has failed.
C16_FetchNeverRaises ==
  /\ fetchCall.outcome # "raised"
  /\ fetchCall.at = "returned" =>
       /\ fetchCall.outcome \in {"bytes", "null"}
       /\ fetchCall.outcome = "bytes" <=>
            (fetchCall.responses # <<>> /\ fetchCall.responses[Len(fetchCall.responses)] = "ok")
       /\ (\A i \in 1..Len(fetchCall.responses) : fetchCall.responses[i] = "error") =>
            fetchCall.outcome = "null"

\* a call whose two requests have both failed has returned
C16_Witness ==
  /\ fetchCall.at = "returned"
  /\ fetchCall.responses = <<"error", "error">>
  /\ fetchCall.outcome = "null"

(* --------------------- getExcelColumn, followed on its own ------------- *)

\* the column indexes getExcelColumn is followed with: 1..MaxColumn, the
\* columns of a sheet
MaxColumn == 16384

ColumnInit ==
  /\ company = <<>>
  /\ catalogs = <<>>
  /\ outputType = "combined"
  /\ templateFile = "good"
  /\ pc = "idle"
  /\ workbook = NewWorkbook
  /\ ci = 1
  /\ pi = 1
  /\ filename = <<>>
  /\ files = <<>>
  /\ result = NoResult
  /\ readLog = <<>>
  /\ writeLog = <<>>
  /\ fetchCall = NoFetch
  /\ response = NoResponse
  /\ styles = NoStyles
  /\ orderSummary = NoSummary
  /\ graphqlCall = NoGraphql
  /\ sessions = NoSessions
  /\ \E n \in 1..MaxColumn :
       columnCall = [n |-> n, column |-> n, letter |-> <<>>, at |-> "loop"]

\* one turn of the while loop
ColumnLoopTurn ==
  /\ columnCall.at = "loop"
  /\ columnCall.column > 0
  /\ LET temp == getExcelColumnTemp(columnCall.column)
     IN columnCall' = [columnCall EXCEPT
                         !.letter = <<LETTERS[temp + 1]>> \o @,
                         !.column = (@ - temp - 1) \div 26]
  /\ UNCHANGED <<generationVars, fetchCall, response, styles, orderSummary, graphqlCall, sessions>>

\* the loop condition fails: return letter
ColumnReturn ==
  /\ columnCall.at = "loop"
  /\ ~(columnCall.column > 0)
  /\ columnCall' = [columnCall EXCEPT !.at = "returned"]
  /\ UNCHANGED <<generationVars, fetchCall, response, styles, orderSummary, graphqlCall, sessions>>

ColumnNext ==
  \/ ColumnLoopTurn
  \/ ColumnReturn

\* the function runs to its end once called: nothing else is scheduled
ColumnSpec == ColumnInit /\ [][ColumnNext]_vars /\ WF_vars(ColumnNext)

(* ------------------------------- C17 ----------------------------------- *)

LetterIndex(ch) == CHOOSE i \in 1..Len(LETTERS) : LETTERS[i] = ch

\* the reference inverse: letters read as a bijective base-26 numeral
RECURSIVE LettersToIndex(_)
LettersToIndex(letter) ==
  IF letter = <<>> THEN 0
  ELSE 26 * LettersToIndex(SubSeq(letter, 1, Len(letter) - 1)) + LetterIndex(letter[Len(letter)])

SpotValues ==
  /\ columnCall.n = 1 => columnCall.letter = <<"A">>
  /\ columnCall.n = 26 => columnCall.letter = <<"Z">>
  /\ columnCall.n = 27 => columnCall.letter = <<"A", "A">>
  /\ columnCall.n = 702 => columnCall.letter = <<"Z", "Z">>

\* C17: for every column index n in 1..MaxColumn the loop of getExcelColumn
\* comes to its end, and the letters it returns are read back as n by the
\* base-26 inverse; 1, 26, 27 and 702 give "A", "Z", "AA" and "ZZ".
C17_ColumnLetterRoundTrip ==
  /\ [](columnCall.at = "returned" =>
          /\ LettersToIndex(columnCall.letter) = columnCall.n
          /\ columnCall.letter = getExcelColumn(columnCall.n)
          /\ SpotValues)
  /\ <>(columnCall.at = "returned")

\* the call for column 702 has returned "ZZ"
C17_Witness ==
  /\ columnCall.at = "returned"
  /\ columnCall.n = 702
  /\ columnCall.letter = <<"Z", "Z">>

(* ------------------------------- C18 ----------------------------------- *)

UNCATEGORIZED == <<"U", "n", "c", "a", "t", "e", "g", "o", "r", "i", "z", "e", "d">>

TOTAL == <<"T", "o", "t", "a", "l">>

\* the (catalog, category, subcategory) combinations among the products,
\* a product without category or subcategory counted under the default group
ProductGroups ==
  UNION { { <<k, OrStr(catalogs[k].products[i].category, UNCATEGORIZED),
                 OrStr(catalogs[k].products[i].subcategory, UNCATEGORIZED)>> :
              i \in 1..Len(catalogs[k].products) } : k \in 1..Len(catalogs) }

\* the rows of a summary sheet that name a category and a subcategory
RollupRows(cells) ==
  { x[1] : x \in { y \in DOMAIN cells :
                     /\ y[2] = 3
                     /\ cells[y].v.t = "string"
                     /\ GetCell(cells, y[1], 4).v.t = "string"
                     /\ GetCell(cells, y[1], 5).v.t = "number" } }

\* the rows of a summary sheet that are labelled as the total
TotalRows(cells) ==
  { x[1] : x \in { y \in DOMAIN cells : cells[y].v = StrV(TOTAL) } }

SumOver(cells, rows, c) ==
  LET RECURSIVE Sum(_)
      Sum(rs) == IF rs = {} THEN 0
                 ELSE LET r == CHOOSE q \in rs : TRUE
                      IN GetCell(cells, r, c).v.n + Sum(rs \ {r})
  IN Sum(rows)

\* C18: the summary sheet of a generated workbook has one rollup row per
\* (catalog, category, subcategory) combination of the products, and after
\* them one total row whose units, wholesale and retail figures are the sums
\* of the rollup rows' figures.
C18_SummaryRollup ==
  (pc = "done" /\ result.kind = "single") =>
    LET summary == result.buffer.sheets[getWorksheet(result.buffer, ORDER_SUMMARY)].cells
        rollups == RollupRows(summary)
        totals == TotalRows(summary)
    IN /\ Cardinality(rollups) = Cardinality(ProductGroups)
       /\ Cardinality(totals) = 1
       /\ \A t \in totals :
            /\ \A r \in rollups : r < t
            /\ \A c \in 5..7 : GetCell(summary, t, c).v = NumV(SumOver(summary, rollups, c))

(* ------------------------------- C19 ----------------------------------- *)

\* C19: no error raised while one product is handled ends the generation:
\* whatever the image block does, the row of every product handled has its
\* attribute cells, and when the product loops are over every product of
\* every catalog has its row.
C19_ProductErrorsDoNotAbort ==
  /\ result.error # "product"
  /\ \A w \in AllWrittenRows : AttributesInPlace(w)
  /\ pc \in {"finalize", "write", "sep_write"} =>
       \A ps \in PopulatedSheets :
         DataRows(ps.cells, ps.startRow) = { ps.startRow + i - 1 : i \in 1..Len(ps.written) }

(* ------------- generation for a catalog of many products --------------- *)

\* products of the one catalog that has any
MaxCatalogProducts == 26

\* a request of two catalogs, the first with up to MaxCatalogProducts equal
\* products and the second with no product list, against a template with
\* content below its sample rows
ManyProductsInit ==
  /\ company \in CompanyNames
  /\ \E P \in 0..MaxCatalogProducts :
       catalogs = << Catalog(1, <<"F", "W", "2", "5">>, TRUE,
                             [i \in 1..P |-> FullProduct(<<"4">>, NoString, 30, 75)]),
                     Catalog(2, <<"S", " ", " ", "6">>, FALSE, <<>>) >>
  /\ outputType \in OutputTypes
  /\ templateFile = "manyRows"
  /\ pc = IF IsSeparate THEN "sep_load" ELSE "load"
  /\ workbook = NewWorkbook
  /\ ci = 1
  /\ pi = 1
  /\ filename = <<>>
  /\ files = <<>>
  /\ result = NoResult
  /\ readLog = [w \in 1..Len(catalogs) |-> "none"]
  /\ writeLog = [w \in 1..Len(catalogs) |-> <<>>]
  /\ fetchCall = NoFetch
  /\ columnCall = NoColumn
  /\ response = NoResponse
  /\ styles = NoStyles
  /\ orderSummary = NoSummary
  /\ graphqlCall = NoGraphql
  /\ sessions = NoSessions

ManyProductsSpec == ManyProductsInit /\ [][Next]_vars

(* ------------------------------- C20 ----------------------------------- *)

\* the columns of a row that the product loop writes for a product
WrittenColumns(w) ==
  (2..13)
    \cup (IF w.separate
          THEN {wholesalePriceColumnSeparate, retailPriceColumnSeparate}
          ELSE {wholesalePriceColumn, retailPriceColumn})
    \cup { firstSizeColumn + j : j \in 0..(sizes(w.product.sizeBreak) - 1) }

\* the sheet being populated and the row the next product goes to
NextProductRow ==
  IF pc = "product"
  THEN {[cells |-> workbook.sheets[Len(workbook.sheets)].cells, row |-> productStartRow + pi - 1]}
  ELSE IF pc = "sep_product"
  THEN {[cells |-> workbook.sheets[SeparateSheetIndex].cells, row |-> productStartRowSeparate + pi - 1]}
  ELSE {}

\* C20: the row a product is about to be written to holds nothing in columns
\* 1..clearColumns, for every product of a catalog however many it has; and
\* in a written product row those columns hold only what the product loop
\* wrote: no value of the template is left.
C20_RowsClearedBeforeWritten ==
  /\ \A nr \in NextProductRow :
       \A c \in 1..clearColumns : GetCell(nr.cells, nr.row, c).v = NullV
  /\ \A w \in AllWrittenRows :
       \A c \in (1..clearColumns) \ WrittenColumns(w) : GetCell(w.cells, w.row, c).v = NullV

(* ------------------------------- C21 ----------------------------------- *)

\* the rows the clearing loop and the product loop of generateExcel work on
ProductRegionRows == productStartRow..(productStartRow + rowsToScan - 1)

\* the two header cells generateExcel stamps: B2 (retailer), B3 (linesheet)
StampedCells == {<<2, 2>>, <<3, 2>>}

\* the template cells the clone is to keep: literal cells outside the stamped
\* cells and outside the product rows
FrameCells(template) ==
  { x \in DOMAIN template.cells :
      /\ template.cells[x].v.t # "formula"
      /\ x \notin StampedCells
      /\ x[1] \notin ProductRegionRows }

\* the catalog sheets of the workbook generateExcel is building, while the
\* template sheet is still in it
ClonedSheets ==
  IF ~IsSeparate /\ getWorksheet(workbook, WINTER_25) # 0
  THEN { SheetIndexById(workbook, 2 + k) : k \in 1..Len(catalogs) } \ {0}
  ELSE {}

\* C21: after a catalog sheet has been generated from the template, every
\* literal template cell that is neither a stamped header cell nor in the
\* product rows has the same value and style in the catalog sheet, and every
\* template row height outside the product rows is the catalog sheet's.
C21_CloneKeepsFrame ==
  \A i \in ClonedSheets :
    LET template == workbook.sheets[getWorksheet(workbook, WINTER_25)]
        sheet == workbook.sheets[i]
    IN /\ \A x \in FrameCells(template) :
            GetCell(sheet.cells, x[1], x[2]) = template.cells[x]
       /\ \A r \in (DOMAIN template.heights) \ ProductRegionRows :
            r \in DOMAIN sheet.heights /\ sheet.heights[r] = template.heights[r]

\* the clone but for the cell the test formula of lines 260-267 goes into
C21_FrameButD5 ==
  \A i \in ClonedSheets :
    LET template == workbook.sheets[getWorksheet(workbook, WINTER_25)]
        sheet == workbook.sheets[i]
    IN /\ \A x \in FrameCells(template) \ {<<5, 4>>} :
            GetCell(sheet.cells, x[1], x[2]) = template.cells[x]
       /\ \A r \in (DOMAIN template.heights) \ ProductRegionRows :
            r \in DOMAIN sheet.heights /\ sheet.heights[r] = template.heights[r]

(* ---------------- style objects of a cloned sheet, by reference --------- *)

\* A cell refers to its style object and a style object refers to its font and
\* alignment objects: `objects` and `parts` are the two heaps, `cellStyle` the
\* reference each cell holds. Sheet 0 is the template, sheets 1..StyleSheets
\* are catalog sheets; positions 1..TemplatePositions are cells the template
\* has, the last position is a cell only the product loop creates.
StyleSheets == 2

TemplatePositions == 2

StylePositions == 3

StyleChanges == 2

\* the style object of a cell that was just created by getCell
FreshStyle == [numFmt |-> "", alignment |-> 0, font |-> 0]

\* the cells of the catalog sheets in the order the clone visits them
CloneTargets ==
  [n \in 1..(StyleSheets * TemplatePositions) |->
     <<((n - 1) \div TemplatePositions) + 1, ((n - 1) % TemplatePositions) + 1>>]

\* newCell.style = cell.style: the new cell refers to the template's object
copyStyleByReference(st, key) ==
  [st EXCEPT !.cellStyle = [x \in (DOMAIN @) \cup {key} |->
                              IF x = key THEN st.cellStyle[<<0, key[2]>>] ELSE @[x]]]

\* line 230, newCell.style = JSON.parse(JSON.stringify(cell.style)): a new
\* style object with new font and alignment objects of the same content
copyStyleDeep(st, key) ==
  LET src == st.objects[st.cellStyle[<<0, key[2]>>]]
      p1 == IF src.alignment = 0 THEN st.parts ELSE Append(st.parts, st.parts[src.alignment])
      a == IF src.alignment = 0 THEN 0 ELSE Len(p1)
      p2 == IF src.font = 0 THEN p1 ELSE Append(p1, st.parts[src.font])
      f == IF src.font = 0 THEN 0 ELSE Len(p2)
      obj == [numFmt |-> src.numFmt, alignment |-> a, font |-> f]
  IN [st EXCEPT !.parts = p2,
                !.objects = Append(@, obj),
                !.cellStyle = [x \in (DOMAIN @) \cup {key} |->
                                 IF x = key THEN Len(st.objects) + 1 ELSE @[x]]]

\* lines 231-240, the catch of the copy: the new cell keeps the style object it
\* was created with, and newCell.font = cell.style.font, newCell.alignment =
\* cell.style.alignment, newCell.numFmt = cell.style.numFmt put the template's
\* own font and alignment objects into it
copyStyleFallback(st, key) ==
  LET src == st.objects[st.cellStyle[<<0, key[2]>>]]
      obj == [numFmt |-> IF src.numFmt # "" THEN src.numFmt ELSE FreshStyle.numFmt,
              alignment |-> IF src.alignment # 0 THEN src.alignment ELSE FreshStyle.alignment,
              font |-> IF src.font # 0 THEN src.font ELSE FreshStyle.font]
  IN [st EXCEPT !.objects = Append(@, obj),
                !.cellStyle = [x \in (DOMAIN @) \cup {key} |->
                                 IF x = key THEN Len(st.objects) + 1 ELSE @[x]],
                !.fallbacks = @ \cup {key}]

\* row.getCell(n) on a catalog sheet: the cell, created with a style object of
\* its own when the sheet has none there
getCellStyle(st, key) ==
  IF key \in DOMAIN st.cellStyle
  THEN st
  ELSE [st EXCEPT !.objects = Append(@, FreshStyle),
                  !.cellStyle = [x \in (DOMAIN @) \cup {key} |->
                                   IF x = key THEN Len(st.objects) + 1 ELSE @[x]]]

\* what a cell's style reads as: the number format and the contents of the
\* alignment and font objects its style object refers to
ResolvedStyle(st, key) ==
  LET obj == st.objects[st.cellStyle[key]]
  IN [numFmt |-> obj.numFmt,
      alignment |-> IF obj.alignment = 0 THEN "none" ELSE st.parts[obj.alignment],
      font |-> IF obj.font = 0 THEN "none" ELSE st.parts[obj.font]]

\* a template sheet as ExcelJS loaded it: its cells refer to one style object
\* or to two, with or without alignment and font objects
StyleInit ==
  /\ company = <<>>
  /\ catalogs = <<>>
  /\ outputType = "combined"
  /\ templateFile = "good"
  /\ pc = "idle"
  /\ workbook = NewWorkbook
  /\ ci = 1
  /\ pi = 1
  /\ filename = <<>>
  /\ files = <<>>
  /\ result = NoResult
  /\ readLog = <<>>
  /\ writeLog = <<>>
  /\ fetchCall = NoFetch
  /\ columnCall = NoColumn
  /\ response = NoResponse
  /\ orderSummary = NoSummary
  /\ graphqlCall = NoGraphql
  /\ sessions = NoSessions
  /\ \E shared \in BOOLEAN, a \in {0, 1}, f \in {0, 2} :
       styles = [at |-> "clone",
                 parts |-> <<"left", "bold">>,
                 objects |-> << [numFmt |-> "General", alignment |-> a, font |-> f],
                                [numFmt |-> CURRENCY, alignment |-> a, font |-> 0] >>,
                 cellStyle |-> [x \in {<<0, p>> : p \in 1..TemplatePositions} |->
                                  IF x[2] = 1 \/ shared THEN 1 ELSE 2],
                 next |-> 1,
                 fallbacks |-> {},
                 target |-> <<0, 0>>,
                 changes |-> 0]

\* lines 215-242, one cell of the clone: the deep copy of the style, or the
\* fallback when the deep copy throws
StyleCloneCell ==
  /\ styles.at = "clone"
  /\ LET key == CloneTargets[styles.next]
     IN \E copied \in BOOLEAN :
          LET st == IF copied THEN copyStyleDeep(styles, key) ELSE copyStyleFallback(styles, key)
          IN styles' = [st EXCEPT !.next = @ + 1,
                                  !.at = IF styles.next = Len(CloneTargets)
                                         THEN "populate" ELSE "clone"]
  /\ UNCHANGED <<generationVars, fetchCall, columnCall, response, orderSummary, graphqlCall,
                 sessions>>

\* lines 381-388: sizeCell.style.alignment = { horizontal: 'center' }
StyleCenter ==
  /\ styles.at = "populate"
  /\ styles.changes < StyleChanges
  /\ \E key \in (1..StyleSheets) \X (1..StylePositions) :
       LET st == getCellStyle(styles, key)
       IN styles' = [st EXCEPT !.parts = Append(@, "center"),
                               !.objects[st.cellStyle[key]].alignment = Len(st.parts) + 1,
                               !.target = key,
                               !.changes = @ + 1]
  /\ UNCHANGED <<generationVars, fetchCall, columnCall, response, orderSummary, graphqlCall,
                 sessions>>

\* lines 366-372: priceCell.numFmt = '$#,##0.00'
StyleNumFmt ==
  /\ styles.at = "populate"
  /\ styles.changes < StyleChanges
  /\ \E key \in (1..StyleSheets) \X (1..StylePositions) :
       LET st == getCellStyle(styles, key)
       IN styles' = [st EXCEPT !.objects[st.cellStyle[key]].numFmt = CURRENCY,
                               !.target = key,
                               !.changes = @ + 1]
  /\ UNCHANGED <<generationVars, fetchCall, columnCall, response, orderSummary, graphqlCall,
                 sessions>>

StyleNext ==
  \/ StyleCloneCell
  \/ StyleCenter
  \/ StyleNumFmt

StyleSpec == StyleInit /\ [][StyleNext]_vars

(* ------------------------------- C22 ----------------------------------- *)

\* C22: a style change on a cell of a catalog sheet leaves the style of every
\* template cell, of every other cell of that sheet and of every cell of the
\* other catalog sheets as it was, whether the cells were cloned by the deep
\* copy or by the fallback copy.
C22_StyleChangeIsLocal ==
  [][ styles'.changes > styles.changes =>
        \A key \in DOMAIN styles.cellStyle :
          key # styles'.target => ResolvedStyle(styles', key) = ResolvedStyle(styles, key) ]_vars

\* a cell cloned by the fallback copy, whose alignment object was the
\* template's, has been centered
C22_Witness ==
  /\ styles.at = "populate"
  /\ styles.changes >= 1
  /\ styles.target \in styles.fallbacks
  /\ ResolvedStyle(styles, styles.target).alignment = "center"
  /\ ResolvedStyle(styles, <<0, styles.target[2]>>).alignment = "left"

(* ------------------------------- C23 ----------------------------------- *)

\* the sheet of the template file a sheet of the workbook was derived from:
\* 'Order Summary' from the file's sheet of that name, a catalog sheet from
\* the file's 'Winter 25'
OriginCells(sheet) ==
  LET fileSheets == TemplateFileSheets(templateFile)
      name == IF sheet.name = ORDER_SUMMARY THEN ORDER_SUMMARY ELSE WINTER_25
      found == { i \in 1..Len(fileSheets) : fileSheets[i].name = name }
  IN IF found = {} THEN NoCells ELSE fileSheets[CHOOSE i \in found : TRUE].cells

\* the cells of a sheet whose template cell is a formula with a cached value,
\* outside the rows the generator clears for products
CachedFormulaCells(sheet) ==
  { x \in DOMAIN OriginCells(sheet) :
      /\ OriginCells(sheet)[x].v.t = "formula"
      /\ OriginCells(sheet)[x].v.hasResult
      /\ x[1] < productStartRow }

\* C23: when the recovery pass is done, no sheet of the workbook holds a
\* formula cell, and every cell derived from a template formula cell with a
\* cached value holds that value: none of them has become null.
C23_RecoveryKeepsComputedValues ==
  (pc \in {"retry", "sep_retry"} /\ readLog[CurrentWorkbook] = "ok") =>
    /\ ~HasFormula(workbook)
    /\ \A i \in 1..Len(workbook.sheets) :
         \A x \in CachedFormulaCells(workbook.sheets[i]) :
           GetCell(workbook.sheets[i].cells, x[1], x[2]).v = NumV(OriginCells(workbook.sheets[i])[x].v.n)

(* ------------------------------- C24 ----------------------------------- *)

\* the path of a URL: what comes before the first '?'
UrlPath(url) ==
  IF indexOf(url, "?", 0) = 0 - 1 THEN url ELSE substring(url, 0, indexOf(url, "?", 0))

\* the query string of a URL: the first '?' and what follows it
UrlQuery(url) ==
  IF indexOf(url, "?", 0) = 0 - 1 THEN <<>> ELSE substring(url, indexOf(url, "?", 0), Len(url))

\* the path has a file extension: a dot after its last '/'
HasExtension(url) ==
  /\ lastIndexOf(UrlPath(url), ".") # 0 - 1
  /\ lastIndexOf(UrlPath(url), ".") > lastIndexOf(UrlPath(url), "/")

\* the URL with "_150x" before the extension of its path
SuffixBeforeExtension(url) ==
  LET path == UrlPath(url)
      dot == lastIndexOf(path, ".")
  IN substring(path, 0, dot) \o SUFFIX_150X \o substring(path, dot, Len(path)) \o UrlQuery(url)

\* C24: the optimized URL of a non-placeholder image URL has "_150x" right
\* before the file extension of the URL's path, and its query string is the
\* original one: the query string is never altered.
C24_SuffixBeforePathExtension ==
  (fetchCall.at # "called" /\ fetchCall.requests # <<>>) =>
    /\ UrlQuery(fetchCall.optimizedUrl) = UrlQuery(fetchCall.imageUrl)
    /\ HasExtension(fetchCall.imageUrl) =>
         fetchCall.optimizedUrl = SuffixBeforeExtension(fetchCall.imageUrl)

(* --------------------- POST /api/generate-linesheet -------------------- *)

\* the handler validates the body, awaits generateExcel(req.body) and answers.
\* A response is its status and what its body is: "error" for the JSON error
\* object, "buffer" for the bytes of one workbook, "zip" for the archive of
\* several, "empty" for res.send(undefined)
Response(status, body, server) == [status |-> status, body |-> body, server |-> server]

\* the validation of both handlers: company and a non-empty catalogs array
InvalidInput == company = <<>> \/ Len(catalogs) = 0

\* res.send(result.buffer) after reading result.filename: a TypeError on a
\* null result, an empty body when the result has no buffer property
sendSingle(server) ==
  IF result.kind = "null" THEN Response(500, "error", server)
  ELSE IF result.kind = "single" THEN Response(200, "buffer", server)
  ELSE Response(200, "empty", server)

\* src/server.js lines 100-128
RespondServer ==
  /\ pc = "done"
  /\ response = NoResponse
  /\ response' =
       IF InvalidInput THEN Response(400, "error", "server.js")
       ELSE IF result.kind = "error" THEN Response(500, "error", "server.js")
       ELSE sendSingle("server.js")
  /\ UNCHANGED <<generationVars, fetchCall, columnCall, styles, orderSummary, graphqlCall,
                 sessions>>

\* src/unnamed/part_001 lines 140-238: several files go out as a ZIP archive,
\* one file as it is, and everything else through the single-file branch
RespondZipServer ==
  /\ pc = "done"
  /\ response = NoResponse
  /\ response' =
       IF InvalidInput THEN Response(400, "error", "part_001")
       ELSE IF result.kind = "error" THEN Response(500, "error", "part_001")
       ELSE IF outputType = "separate" /\ result.kind = "null"
       THEN Response(500, "error", "part_001")
       ELSE IF outputType = "separate" /\ result.kind = "files" /\ Len(result.files) > 0
       THEN IF Len(result.files) > 1
            THEN Response(200, "zip", "part_001")
            ELSE Response(200, "buffer", "part_001")
       ELSE sendSingle("part_001")
  /\ UNCHANGED <<generationVars, fetchCall, columnCall, styles, orderSummary, graphqlCall,
                 sessions>>

ServerNext ==
  \/ Next
  \/ RespondServer
  \/ RespondZipServer

ServerSpec == Init /\ [][ServerNext]_vars

(* ------------------------------- C25 ----------------------------------- *)

\* the generation ended fatally: the template sheet is missing (null), the
\* promise was rejected (serialization failed after the retry among others),
\* or separate mode produced no file at all
EndedFatally ==
  \/ result.kind = "null"
  \/ result.kind = "error"
  \/ result.kind = "files" /\ result.files = <<>>

\* C25: a request whose generation ended fatally is answered with a non-2xx
\* status and an error body, and a 2xx response always carries a generated
\* workbook or a bundle of generated files.
C25_FatalIsNon2xx ==
  response # NoResponse =>
    /\ EndedFatally => (response.status \notin 200..299 /\ response.body = "error")
    /\ response.status \in 200..299 => response.body \in {"buffer", "zip"}

\* what the newer handler does hold to: it answers a rejected or null
\* generation with 500 and an error body
C25_RejectedIs500 ==
  (response # NoResponse /\ result.kind \in {"null", "error"}) =>
    (response.status = 500 /\ response.body = "error")

(* --------------- addOrderSummarySheet of the first generator ----------- *)

\* the printable characters, in the order of their codes from 32 on (those
\* of codes 92 and 96 are spelled out)
ASCII ==
  <<" ", "!", "\"", "#", "$", "%", "&", "'", "(", ")", "*", "+", ",", "-", ".", "/",
     "0", "1", "2", "3", "4", "5", "6", "7", "8", "9", ":", ";", "<", "=", ">", "?",
     "@", "A", "B", "C", "D", "E", "F", "G", "H", "I", "J", "K", "L", "M", "N", "O",
     "P", "Q", "R", "S", "T", "U", "V", "W", "X", "Y", "Z", "[", "backslash", "]", "^", "_",
     "backtick", "a", "b", "c", "d", "e", "f", "g", "h", "i", "j", "k", "l", "m", "n", "o",
     "p", "q", "r", "s", "t", "u", "v", "w", "x", "y", "z", "{", "|", "}", "~">>

\* str.charCodeAt(i) for one character
charCodeAt(ch) == 31 + (CHOOSE i \in 1..Len(ASCII) : ASCII[i] = ch)

\* A 32-bit integer as its two 16-bit halves, in two's complement.
Int32(hi, lo) == [hi |-> hi, lo |-> lo]

\* hash << 5
shiftLeft5(w) ==
  Int32((w.hi * 32 + ((w.lo * 32) \div 65536)) % 65536, (w.lo * 32) % 65536)

\* a - b, kept to 32 bits
minus32(a, b) ==
  LET borrow == IF a.lo < b.lo THEN 1 ELSE 0
  IN Int32((a.hi - b.hi - borrow + 65536) % 65536, (a.lo - b.lo + 65536) % 65536)

\* a + c for a character code c, kept to 32 bits
plus32(a, c) ==
  Int32((a.hi + ((a.lo + c) \div 65536)) % 65536, (a.lo + c) % 65536)

\* Math.abs of a 32-bit integer: its magnitude, as an unsigned number
abs32(w) == IF w.hi >= 32768 THEN minus32(Int32(0, 0), w) ELSE w

\* n % m for an unsigned number given by its halves
mod32(w, m) == ((w.hi % m) * (65536 % m) + (w.lo % m)) % m

\* one turn of the loop of hashString: hash = ((hash << 5) - hash) + char;
\* hash = hash & hash
hashTurn(hash, char) == plus32(minus32(shiftLeft5(hash), hash), char)

\* `${catalog.name}-${category}-${subcategory}`
rollupKey(name, category, subcategory) ==
  name \o <<"-">> \o category \o <<"-">> \o subcategory

\* a push that derives the figures from the row's position as well
pushRowNumbered(data, delivery, group, subgroup, productHash) ==
  LET units == 5 + ((mod32(productHash, 20) + Len(data)) % 20)
      avgWholesale == 35 + mod32(productHash, 30)
  IN Append(data, [seasonYear |-> <<>>, delivery |-> delivery, category |-> group,
                   subcategory |-> subgroup, units |-> units,
                   wholesale |-> units * avgWholesale,
                   retailHalves |-> units * (avgWholesale * 5)])

\* lines 264-276, summaryData.push: units = 5 + hash % 20, avgWholesale = 35 +
\* hash % 30, avgRetail = avgWholesale * 2.5; the retail total is kept in
\* halves of a dollar, units * avgWholesale * 5, so that it stays an integer
pushRow(data, delivery, group, subgroup, productHash) ==
  LET units == 5 + mod32(productHash, 20)
      avgWholesale == 35 + mod32(productHash, 30)
  IN Append(data, [seasonYear |-> <<>>, delivery |-> delivery, category |-> group,
                   subcategory |-> subgroup, units |-> units,
                   wholesale |-> units * avgWholesale,
                   retailHalves |-> units * (avgWholesale * 5)])

\* the requests the summary is followed on: catalogs of up to
\* MaxSummaryProducts products that differ in category and subcategory
MaxSummaryProducts == 2

SummaryProducts ==
  { [EmptyProduct EXCEPT !.category = g[1], !.subcategory = g[2]] :
      g \in { <<NoString, NoString>>, <<<<"C">>, <<"S">>>>, <<<<"C">>, NoString>> } }

SummaryCatalogPool ==
  { Catalog(0, nm, TRUE, ps) : nm \in CatalogNames,
                               ps \in SeqsUpTo(SummaryProducts, MaxSummaryProducts) }
    \cup { Catalog(0, nm, FALSE, <<>>) : nm \in CatalogNames }

SummaryCatalogLists ==
  { [i \in 1..Len(cs) |-> [cs[i] EXCEPT !.id = i]] :
      cs \in { q \in SeqsUpTo(SummaryCatalogPool, MaxCatalogs) :
                 Len(q) >= 1 /\ TotalProducts(q) <= MaxSummaryProducts } }

\* a generation of one catalog with one product, to compare others with
SingleCatalogLists ==
  { cs \in SummaryCatalogLists : Len(cs) = 1 /\ Len(cs[1].products) = 1 }

\* two generations, one after the other: `inputs` are their catalogs, `run`
\* the one addOrderSummarySheet is working on, `done` the summaryData of the
\* runs that are over; `str`, `i` and `hash` are those of hashString
SummaryInit ==
  /\ company = <<>>
  /\ catalogs = <<>>
  /\ outputType = "combined"
  /\ templateFile = "good"
  /\ pc = "idle"
  /\ workbook = NewWorkbook
  /\ ci = 1
  /\ pi = 1
  /\ filename = <<>>
  /\ files = <<>>
  /\ result = NoResult
  /\ readLog = <<>>
  /\ writeLog = <<>>
  /\ fetchCall = NoFetch
  /\ columnCall = NoColumn
  /\ response = NoResponse
  /\ styles = NoStyles
  /\ graphqlCall = NoGraphql
  /\ sessions = NoSessions
  /\ \E first \in SummaryCatalogLists, second \in SingleCatalogLists :
       orderSummary = [at |-> "catalog", inputs |-> <<first, second>>, run |-> 1,
                       catalog |-> 1, product |-> 1, categories |-> {},
                       str |-> <<>>, i |-> 0, hash |-> Int32(0, 0),
                       summaryData |-> <<>>, totals |-> <<>>, done |-> <<>>]

\* lines 240-247: the next catalog; one without a products array is passed
\* over, another one starts with no category seen
SummaryCatalog ==
  /\ orderSummary.at = "catalog"
  /\ LET cs == orderSummary.inputs[orderSummary.run]
         catalog == cs[orderSummary.catalog]
     IN orderSummary' =
          IF ~catalog.hasProducts \/ catalog.products = <<>>
          THEN [orderSummary EXCEPT
                  !.catalog = @ + 1,
                  !.categories = {},
                  !.at = IF orderSummary.catalog = Len(cs) THEN "totals" ELSE "catalog"]
          ELSE [orderSummary EXCEPT !.categories = {}, !.product = 1, !.at = "product"]
  /\ UNCHANGED <<generationVars, fetchCall, columnCall, response, styles, graphqlCall,
                 sessions>>

\* the product loop goes on with the next product, the next catalog or the
\* rows of the sheet
afterProduct(st) ==
  LET cs == st.inputs[st.run]
      last == st.product = Len(cs[st.catalog].products)
  IN [st EXCEPT !.product = IF last THEN 1 ELSE @ + 1,
                !.catalog = IF last THEN @ + 1 ELSE @,
                !.at = IF ~last THEN "product"
                       ELSE IF st.catalog = Len(cs) THEN "totals" ELSE "catalog"]

\* lines 249-263, one product: the first product of a category and
\* subcategory of this catalog has hashString called on the row's key
SummaryProduct ==
  /\ orderSummary.at = "product"
  /\ LET catalog == orderSummary.inputs[orderSummary.run][orderSummary.catalog]
         product == catalog.products[orderSummary.product]
         category == OrStr(product.category, UNCATEGORIZED)
         subcategory == OrStr(product.subcategory, UNCATEGORIZED)
     IN orderSummary' =
          IF <<category, subcategory>> \in orderSummary.categories
          THEN afterProduct(orderSummary)
          ELSE [orderSummary EXCEPT
                  !.categories = @ \cup {<<category, subcategory>>},
                  !.str = rollupKey(catalog.name, category, subcategory),
                  !.i = 0,
                  !.hash = Int32(0, 0),
                  !.at = "hash"]
  /\ UNCHANGED <<generationVars, fetchCall, columnCall, response, styles, graphqlCall,
                 sessions>>

\* lines 351-355: one turn of the loop of hashString
HashTurn ==
  /\ orderSummary.at = "hash"
  /\ orderSummary.i < Len(orderSummary.str)
  /\ orderSummary' =
       [orderSummary EXCEPT
          !.hash = hashTurn(@, charCodeAt(orderSummary.str[orderSummary.i + 1])),
          !.i = @ + 1]
  /\ UNCHANGED <<generationVars, fetchCall, columnCall, response, styles, graphqlCall,
                 sessions>>

\* line 357 and lines 264-277: hashString returns Math.abs(hash) and the row
\* is pushed
SummaryPush ==
  /\ orderSummary.at = "hash"
  /\ orderSummary.i = Len(orderSummary.str)
  /\ LET catalog == orderSummary.inputs[orderSummary.run][orderSummary.catalog]
         product == catalog.products[orderSummary.product]
         pushed == pushRow(orderSummary.summaryData, catalog.name,
                           OrStr(product.category, UNCATEGORIZED),
                           OrStr(product.subcategory, UNCATEGORIZED),
                           abs32(orderSummary.hash))
     IN orderSummary' = afterProduct([orderSummary EXCEPT !.summaryData = pushed])
  /\ UNCHANGED <<generationVars, fetchCall, columnCall, response, styles, graphqlCall,
                 sessions>>

RECURSIVE SumField(_, _)
SumField(rows, field) ==
  IF rows = <<>> THEN 0 ELSE Head(rows)[field] + SumField(Tail(rows), field)

\* lines 282-314: the rows are written and the totals row follows them; the
\* run is over, and the next request is served
SummaryTotals ==
  /\ orderSummary.at = "totals"
  /\ LET rows == orderSummary.summaryData
         totals == [units |-> SumField(rows, "units"),
                    wholesale |-> SumField(rows, "wholesale"),
                    retailHalves |-> SumField(rows, "retailHalves")]
     IN orderSummary' =
          IF orderSummary.run = Len(orderSummary.inputs)
          THEN [orderSummary EXCEPT !.totals = Append(@, totals), !.done = Append(@, rows),
                                    !.at = "done"]
          ELSE [orderSummary EXCEPT !.totals = Append(@, totals), !.done = Append(@, rows),
                                    !.run = @ + 1, !.catalog = 1, !.product = 1,
                                    !.categories = {}, !.summaryData = <<>>,
                                    !.at = "catalog"]
  /\ UNCHANGED <<generationVars, fetchCall, columnCall, response, styles, graphqlCall,
                 sessions>>

SummaryNext ==
  \/ SummaryCatalog
  \/ SummaryProduct
  \/ HashTurn
  \/ SummaryPush
  \/ SummaryTotals

SummarySpec == SummaryInit /\ [][SummaryNext]_vars

(* ------------------------------- C26 ----------------------------------- *)

\* every rollup row the two generations have produced so far
AllRollupRows ==
  UNION { { orderSummary.done[r][i] : i \in 1..Len(orderSummary.done[r]) } :
            r \in 1..Len(orderSummary.done) }
    \cup { orderSummary.summaryData[i] : i \in 1..Len(orderSummary.summaryData) }

RollupTriple(row) == <<row.delivery, row.category, row.subcategory>>

RollupFigures(row) == <<row.units, row.wholesale, row.retailHalves>>

\* C26: the units, wholesale total and retail total of a rollup row depend on
\* its catalog name, category and subcategory alone: two rows with the same
\* triple, in one generation or in two, at any position and next to any other
\* catalogs and products, carry the same figures.
C26_FiguresDependOnTripleOnly ==
  \A r1, r2 \in AllRollupRows :
    RollupTriple(r1) = RollupTriple(r2) => RollupFigures(r1) = RollupFigures(r2)

\* both generations are over, both hold a row for one triple, and the row
\* is not at the same position in the two
C26_Witness ==
  /\ orderSummary.at = "done"
  /\ \E i \in 1..Len(orderSummary.done[1]), j \in 1..Len(orderSummary.done[2]) :
       /\ i # j
       /\ RollupTriple(orderSummary.done[1][i]) = RollupTriple(orderSummary.done[2][j])
       /\ orderSummary.done[1][i].units \in 5..24

(* ------------------- network calls and their timeouts ------------------ *)

\* timeout: 10000 of both axios.get calls of fetchImageBuffer
imageTimeout == 10000

\* the axios call of graphqlRequest states no timeout: axios waits without
\* a limit, which is its timeout of 0
graphqlTimeout == 0

\* the callers of graphqlRequest in shopify-api.js
GraphqlQueries == {"location", "catalogs", "catalog", "products", "allProducts"}

\* what the remote can answer to a GraphQL request: data, a body with
\* errors (thrown at line 41), or a failure of the request
GraphqlAnswers == {"data", "graphqlErrors", "requestError"}

NetworkInit ==
  /\ company = <<>>
  /\ catalogs = <<>>
  /\ outputType = "combined"
  /\ templateFile = "good"
  /\ pc = "idle"
  /\ workbook = NewWorkbook
  /\ ci = 1
  /\ pi = 1
  /\ filename = <<>>
  /\ files = <<>>
  /\ result = NoResult
  /\ readLog = <<>>
  /\ writeLog = <<>>
  /\ columnCall = NoColumn
  /\ response = NoResponse
  /\ styles = NoStyles
  /\ orderSummary = NoSummary
  /\ sessions = NoSessions
  /\ \E imageUrl \in ImageUrls :
       fetchCall = [NoFetch EXCEPT !.imageUrl = imageUrl, !.at = "called"]
  /\ \E query \in GraphqlQueries :
       graphqlCall = [at |-> "called", query |-> query, outcome |-> "none"]

\* lines 26-38: the request is sent
GraphqlEnter ==
  /\ graphqlCall.at = "called"
  /\ graphqlCall' = [graphqlCall EXCEPT !.at = "pending"]
  /\ UNCHANGED <<generationVars, fetchCall, columnCall, response, styles, orderSummary,
                 sessions>>

\* lines 40-48: the remote has answered; data is returned, and errors in the
\* body or a failed request are logged and thrown again
GraphqlAnswered ==
  /\ graphqlCall.at = "pending"
  /\ \E answer \in GraphqlAnswers :
       graphqlCall' = [graphqlCall EXCEPT !.at = "returned",
                                          !.outcome = IF answer = "data" THEN "data"
                                                      ELSE "raised"]
  /\ UNCHANGED <<generationVars, fetchCall, columnCall, response, styles, orderSummary,
                 sessions>>

\* the remote has answered an image request
ImageAnswered ==
  (FetchFirstSettles \/ FetchFallbackSettles)

\* the timer of a pending request that has a timeout runs out: axios rejects
\* the request, which is its error outcome
TimerFires ==
  \E call \in {"image", "graphql"} :
    IF call = "image"
    THEN /\ imageTimeout > 0
         /\ ImageAnswered
         /\ fetchCall'.responses[Len(fetchCall'.responses)] = "error"
    ELSE /\ graphqlTimeout > 0
         /\ graphqlCall.at = "pending"
         /\ graphqlCall' = [graphqlCall EXCEPT !.at = "returned", !.outcome = "raised"]
         /\ UNCHANGED <<generationVars, fetchCall, columnCall, response, styles,
                        orderSummary, sessions>>

NetworkNext ==
  \/ FetchEnter
  \/ ImageAnswered
  \/ GraphqlEnter
  \/ GraphqlAnswered
  \/ TimerFires

\* the steps of the process itself are taken, and a timer that was set runs
\* out; that a remote answers is not assumed
NetworkSpec ==
  /\ NetworkInit
  /\ [][NetworkNext]_vars
  /\ WF_vars(FetchEnter)
  /\ WF_vars(GraphqlEnter)
  /\ WF_vars(TimerFires)

(* ------------------------------- C27 ----------------------------------- *)

\* C27: every network call made while serving a request, an image fetch as
\* well as a GraphQL query, is over at some time, with a response or with a
\* failure, even when the remote never answers.
C27_EveryNetworkCallCompletes ==
  /\ <>(fetchCall.at = "returned")
  /\ <>(graphqlCall.at = "returned")

\* the part that holds: a call of fetchImageBuffer is over at some time, and
\* it gives bytes or null
C27_ImageFetchCompletes ==
  <>(fetchCall.at = "returned" /\ fetchCall.outcome \in {"bytes", "null"})

(* ------------------ two requests served by one process ----------------- *)

\* Node runs one step at a time: a request runs from one await to the next
\* without interruption, and another request can run while it waits. The
\* workbooks are objects of one heap; a request holds the reference that
\* `new ExcelJS.Workbook()` gave it. Every step notes the workbooks it has
\* read or changed and whether an operation on them was still in progress.
Requests == 1..2

MaxSessionCatalogs == 2

MaxSessionImages == 1

\* one module-level workbook that every call uses
sharedWorkbook(st, r) ==
  IF st.heap = <<>>
  THEN [st EXCEPT !.heap = Append(@, [creator |-> r, mutations |-> 0, pending |-> 0]),
                  !.req[r].wb = 1]
  ELSE [st EXCEPT !.req[r].wb = 1]

\* lines 133 and 463, const workbook = new ExcelJS.Workbook(): a new object,
\* held by a local variable of the call
newWorkbook(st, r) ==
  [st EXCEPT !.heap = Append(@, [creator |-> r, mutations |-> 0, pending |-> 0]),
             !.req[r].wb = Len(st.heap) + 1]

\* await workbook.xlsx.readFile / writeBuffer: the operation starts
beginAwait(st, r) ==
  [st EXCEPT !.heap[st.req[r].wb].pending = @ + 1,
             !.last = [by |-> r, refs |-> {st.req[r].wb},
                       overlap |-> st.heap[st.req[r].wb].pending > 0]]

\* the awaited operation is over
endAwait(st, r) == [st EXCEPT !.heap[st.req[r].wb].pending = @ - 1]

\* a run of synchronous statements on the call's workbook
mutateWorkbook(st, r) ==
  [st EXCEPT !.heap[st.req[r].wb].mutations = @ + 1,
             !.last = [by |-> r, refs |-> {st.req[r].wb},
                       overlap |-> st.heap[st.req[r].wb].pending > 0]]

\* { buffer, filename } or result.files.push({ buffer, ... }): the bytes of the
\* call's workbook go into the call's result
pushBuffer(st, r) == [st EXCEPT !.req[r].buffers = Append(@, st.req[r].wb)]

\* the call goes on after a workbook is done with: the next catalog of
\* generateSeparateExcelFiles, or the return
afterWorkbook(st, r) ==
  IF st.req[r].separate /\ st.req[r].catalog < st.req[r].catalogs
  THEN [st EXCEPT !.req[r].catalog = @ + 1, !.req[r].at = "start"]
  ELSE [st EXCEPT !.req[r].at = "done"]

SessionsInit ==
  /\ company = <<>>
  /\ catalogs = <<>>
  /\ outputType = "combined"
  /\ templateFile = "good"
  /\ pc = "idle"
  /\ workbook = NewWorkbook
  /\ ci = 1
  /\ pi = 1
  /\ filename = <<>>
  /\ files = <<>>
  /\ result = NoResult
  /\ readLog = <<>>
  /\ writeLog = <<>>
  /\ fetchCall = NoFetch
  /\ columnCall = NoColumn
  /\ response = NoResponse
  /\ styles = NoStyles
  /\ orderSummary = NoSummary
  /\ graphqlCall = NoGraphql
  /\ \E n \in [Requests -> 1..MaxSessionCatalogs], type \in [Requests -> OutputTypes],
        images \in [Requests -> 0..MaxSessionImages] :
       sessions = [at |-> "serving",
                   heap |-> <<>>,
                   req |-> [r \in Requests |->
                              [at |-> "start", wb |-> 0, catalogs |-> n[r], catalog |-> 1,
                               separate |-> type[r] = "separate" /\ n[r] > 1,
                               images |-> images[r], toFetch |-> images[r],
                               buffers |-> <<>>]],
                   last |-> [by |-> 0, refs |-> {}, overlap |-> FALSE]]

\* lines 133-137 and 463-467: a workbook is created and the template read starts
SessionStart ==
  /\ \E r \in Requests :
       /\ sessions.req[r].at = "start"
       /\ sessions' = [beginAwait(newWorkbook(sessions, r), r) EXCEPT
                         !.req[r].at = "read", !.req[r].toFetch = sessions.req[r].images]
  /\ UNCHANGED <<generationVars, fetchCall, columnCall, response, styles, orderSummary,
                 graphqlCall>>

\* lines 138-314 and 468-544: the read is over; the sheets are prepared up to
\* the first image fetch, or up to the serialization when there is none
SessionRead ==
  /\ \E r \in Requests :
       /\ sessions.req[r].at = "read"
       /\ LET st == mutateWorkbook(endAwait(sessions, r), r)
          IN sessions' =
               IF st.req[r].toFetch > 0
               THEN [st EXCEPT !.req[r].at = "fetch"]
               ELSE [beginAwait(st, r) EXCEPT !.req[r].at = "write"]
  /\ UNCHANGED <<generationVars, fetchCall, columnCall, response, styles, orderSummary,
                 graphqlCall>>

\* lines 320-416 and 548-622: an image fetch is over; the image and the
\* product's cells are written, up to the next fetch or the serialization
SessionFetch ==
  /\ \E r \in Requests :
       /\ sessions.req[r].at = "fetch"
       /\ LET st == [mutateWorkbook(sessions, r) EXCEPT !.req[r].toFetch = @ - 1]
          IN sessions' =
               IF st.req[r].toFetch > 0
               THEN st
               ELSE [beginAwait(st, r) EXCEPT !.req[r].at = "write"]
  /\ UNCHANGED <<generationVars, fetchCall, columnCall, response, styles, orderSummary,
                 graphqlCall>>

\* lines 416-442 and 622-654: the serialization is over; its bytes go into the
\* result, or the recovery pass runs and the second serialization starts
SessionWrite ==
  /\ \E r \in Requests, ok \in BOOLEAN :
       /\ sessions.req[r].at = "write"
       /\ sessions' =
            IF ok
            THEN afterWorkbook(pushBuffer(endAwait(sessions, r), r), r)
            ELSE [beginAwait(mutateWorkbook(endAwait(sessions, r), r), r) EXCEPT
                    !.req[r].at = "retry"]
  /\ UNCHANGED <<generationVars, fetchCall, columnCall, response, styles, orderSummary,
                 graphqlCall>>

\* lines 442-444 and 654-667: the second serialization is over
SessionRetry ==
  /\ \E r \in Requests, ok \in BOOLEAN :
       /\ sessions.req[r].at = "retry"
       /\ sessions' =
            IF ok
            THEN afterWorkbook(pushBuffer(endAwait(sessions, r), r), r)
            ELSE afterWorkbook(endAwait(sessions, r), r)
  /\ UNCHANGED <<generationVars, fetchCall, columnCall, response, styles, orderSummary,
                 graphqlCall>>

SessionsNext ==
  \/ SessionStart
  \/ SessionRead
  \/ SessionFetch
  \/ SessionWrite
  \/ SessionRetry

SessionsSpec == SessionsInit /\ [][SessionsNext]_vars

(* ------------------------------- C28 ----------------------------------- *)

\* C28: when two generation requests interleave at their awaits, a step of a
\* request reads and changes only workbooks that request created, the
\* buffers of a request's result come from its own workbooks, and no step
\* works on a workbook while an operation on it is still in progress.
C28_RequestsAreIsolated ==
  /\ \A ref \in sessions.last.refs : sessions.heap[ref].creator = sessions.last.by
  /\ ~sessions.last.overlap
  /\ \A ref \in 1..Len(sessions.heap) : sessions.heap[ref].pending <= 1
  /\ \A r \in Requests :
       \A i \in 1..Len(sessions.req[r].buffers) :
         sessions.heap[sessions.req[r].buffers[i]].creator = r

\* both requests are over after each has changed its workbook while the other
\* one was waiting for an operation of its own
C28_Witness ==
  /\ \A r \in Requests : sessions.req[r].at = "done" /\ sessions.req[r].buffers # <<>>
  /\ \E a, b \in 1..Len(sessions.heap) :
       /\ sessions.heap[a].creator = 1
       /\ sessions.heap[b].creator = 2
       /\ sessions.heap[a].mutations >= 2
       /\ sessions.heap[b].mutations >= 2
       /\ a < b
       /\ \E c \in 1..Len(sessions.heap) : c > b /\ sessions.heap[c].creator = 1

(* ------------------------------- C29 ----------------------------------- *)

\* the cells generateExcel writes for the i-th product of a catalog
CombinedPlacement(i, product) ==
  writeProductCells(NoCells, productStartRow + i - 1, product)

\* C29: a per-catalog sheet written in separate mode holds every product
\* value in the cell where combined mode puts it for the same product list:
\* the same first product row, the same columns for name, style number and
\* the two prices, and the same size-break value when the product has none.
C29_SeparatePlacesLikeCombined ==
  \A w \in AllWrittenRows :
    w.separate =>
      LET expected == CombinedPlacement(w.row - productStartRowSeparate + 1, w.product)
      IN \A x \in DOMAIN expected : GetCell(w.cells, x[1], x[2]).v = expected[x].v

(* ------------------------------- C30 ----------------------------------- *)

\* the index of the catalog a file says it is of (0: of none)
CatalogOfFile(file) ==
  IF \E k \in 1..Len(catalogs) : catalogs[k].id = file.catalogId
  THEN CHOOSE k \in 1..Len(catalogs) : catalogs[k].id = file.catalogId
  ELSE 0

\* the first n products of a catalog written into its sheet, images aside
RECURSIVE SeparateRows(_, _, _)
SeparateRows(sheet, products, n) ==
  IF n = 0 THEN sheet
  ELSE LET before == SeparateRows(sheet, products, n - 1)
           rowIndex == productStartRowSeparate + (n - 1)
       IN [before EXCEPT !.heights = SetHeight(@, rowIndex, productRowHeight),
                         !.cells = writeProductCellsSeparate(@, rowIndex, products[n])]

\* the sheets of the file of catalog k, images aside, as they follow from the
\* template, the company, catalog k and the outcome of catalog k's own first
\* serialization
OwnSheets(k) ==
  LET catalog == catalogs[k]
      wb0 == fixSharedFormulasSeparate(
               [NewWorkbook EXCEPT !.sheets = TemplateFileSheets(templateFile)])
      templateSheet == getWorksheet(wb0, WINTER_25)
      sheet0 == wb0.sheets[templateSheet]
      b2 == SetValue(sheet0.cells, 2, 2, StrV(company))
      b3 == SetValue(b2, 3, 2, StrV(catalog.name))
      cleared == clearProductRows(b3, productStartRowSeparate)
      sheet == [sheet0 EXCEPT !.name = catalog.name, !.cells = cleared]
      filled == SeparateRows(sheet, catalog.products,
                             IF catalog.hasProducts THEN Len(catalog.products) ELSE 0)
      wb == ReplaceSheet(wb0, templateSheet, filled)
  IN IF writeLog[k] # <<>> /\ Head(writeLog[k]) = "failed"
     THEN removeFormulas(wb).sheets ELSE wb.sheets

WithoutImages(sheets) ==
  [i \in 1..Len(sheets) |-> [sheets[i] EXCEPT !.images = {}]]

\* catalog k's own handling has ended with a file
ProducesFile(k) ==
  /\ readLog[k] = "ok"
  /\ templateFile = "good"
  /\ writeLog[k] # <<>>
  /\ writeLog[k][Len(writeLog[k])] = "written"

\* C30: the files list returned in separate mode holds at most one file per
\* input catalog, in input catalog order, each with the id and the
\* name-derived filename of its own catalog; whether a catalog has a file,
\* and what that file holds, follows from that catalog's own handling alone,
\* whatever template-load, missing-sheet or serialization failure the other
\* catalogs meet.
C30_FilesAreIndependent ==
  (pc = "done" /\ IsSeparate /\ result.kind = "files") =>
    /\ \A j \in 1..Len(result.files) : CatalogOfFile(result.files[j]) # 0
    /\ \A i, j \in 1..Len(result.files) :
         i < j => CatalogOfFile(result.files[i]) < CatalogOfFile(result.files[j])
    /\ \A j \in 1..Len(result.files) :
         LET k == CatalogOfFile(result.files[j])
         IN /\ result.files[j].filename = separateFilename(company, catalogs[k].name)
            /\ WithoutImages(result.files[j].buffer.sheets) = OwnSheets(k)
    /\ \A k \in 1..Len(catalogs) :
         ProducesFile(k) <=> \E j \in 1..Len(result.files) : CatalogOfFile(result.files[j]) = k

\* a returned list in which one catalog has no file, after a failed template
\* read or two failed serializations, and a later catalog with a product has
\* its file
C30_Witness ==
  /\ pc = "done"
  /\ IsSeparate
  /\ result.kind = "files"
  /\ Len(result.files) = 1
  /\ \E k \in 1..Len(catalogs) :
       /\ k > 1
       /\ CatalogOfFile(result.files[1]) = k
       /\ Len(catalogs[k].products) > 0
       /\ \/ readLog[1] = "failed"
          \/ FailedTwice(1)

====
